---------------------------- MODULE Spec2Model ----------------------------
(***************************************************************************)
(* ChainPulse webhook ingestion core (backend/src/handlers/webhook.handler *)
(* and the Express route that feeds it).                                   *)
(*                                                                         *)
(* The state is the WebhookHandler singleton (activities, leaderboard,     *)
(* totalFees, totalTransactions), the listeners registered on its          *)
(* EventEmitter channels, and the position of every processPayload call    *)
(* that has been started and has not settled.                              *)
(*                                                                         *)
(* processPayload is an async function.  Its body runs synchronously up to *)
(* the first await; every later piece runs as a promise continuation.      *)
(* Each awaited call (handleRollback, processPrintEvent, processNFTEvent,  *)
(* processSTXTransfer) runs its whole body, store mutation and emit        *)
(* included, synchronously when it is called, so one "unit" of a delivery  *)
(* (its rollback, or one event of one transaction) is atomic and the       *)
(* await that follows it is a point where another started call may run.    *)
(*                                                                         *)
(* A payload is read as the loops of processPayload/processTransaction     *)
(* read it: front to back, never looking ahead.  The model therefore draws *)
(* the rollback list when the delivery is accepted and each further        *)
(* transaction/event when the loop reaches it.                             *)
(*                                                                         *)
(* The three Clarity contracts (pulse-core, pulse-rewards and              *)
(* pulse-badge-nft) are modelled call by call: a public function is one    *)
(* transaction, which either returns (ok ..) and keeps its writes or       *)
(* returns (err ..) and leaves the contract as it was.                     *)
(*                                                                         *)
(* Eight specifications share the variables:                               *)
(*   Spec         deliveries drawn event by event, as described above;     *)
(*   PayloadSpec  requests of the webhook route with whole payloads, from  *)
(*                the choice of the apply blocks to the response;          *)
(*   DecodeSpec   decodeClarityValue / parseClarityTuple on hex strings;   *)
(*   QuerySpec    getActivities / getUserActivities on a filled ledger;    *)
(*   HookSpec     the chainhook registration script and the remote API;    *)
(*   BadgeSpec    calls of pulse-badge-nft;                                *)
(*   RewardsSpec  calls of pulse-rewards;                                  *)
(*   CoreSpec     calls of pulse-core over the burn blocks.                *)
(***************************************************************************)
EXTENDS Integers, Sequences, FiniteSets, TLC

VARIABLES
    activities,         \* WebhookHandler.activities: sequence of ActivityRecord
    leaderboard,        \* WebhookHandler.leaderboard: user -> LeaderboardEntry
    totalFees,          \* WebhookHandler.totalFees
    totalTransactions,  \* WebhookHandler.totalTransactions
    listeners,          \* EventEmitter: channel -> sequence of listeners ("ok"/"throw")
    env,                \* what the deliveries of this run are made of (fixed by Init)
    calls,              \* processPayload calls started so far: sequence of call frames
    draining,           \* TRUE while the runtime is running promise continuations
    units,              \* number of event units processed so far (bounds the run)
    last,               \* the unit executed by the most recent step
    emitted,            \* emit() calls made by the most recent step, in order
    hexValue,           \* the argument of a decodeClarityValue call: a sequence of characters
    decoded,            \* what that call returned (Pending before it has run)
    reply,              \* what the most recent getActivities / getUserActivities call returned
    responses,          \* HTTP responses of the webhook route, in the order they were sent
    broadcasts,         \* messages the webhook route has sent to WebSocket clients, in order
    request,            \* the webhook request that arrived last, and how many have arrived
    hooks,              \* the chainhooks the remote API holds, in the order it lists them
    issued,             \* number of uuids the remote API has handed out
    script,             \* position of the registration script
    contract            \* the Clarity contract a run calls: its data, the burn block height, the last call

vars == <<activities, leaderboard, totalFees, totalTransactions, listeners, env,
          calls, draining, units, last, emitted, hexValue, decoded,
          reply, responses, broadcasts, request, hooks, issued, script, contract>>

decoding == <<hexValue, decoded>>

querying == <<reply>>

serving == <<responses, broadcasts, request>>

registering == <<hooks, issued, script>>

store == <<activities, leaderboard, totalFees, totalTransactions>>

-----------------------------------------------------------------------------
(* Bounds of the model *)

MaxDeliveries == 2
MaxUnits == 2
\* decoder runs: bytes of a text input, fields of a tuple input
MaxTextBytes == 3
MaxFields == 2

(* Input alphabets *)

Users == {"SP1", "SP2"}
Heights == {100, 101}
RollbackLists == {<<100>>, <<101>>, <<100, 101>>}
\* where a transaction of a payload sits: its hash and the height of its block
TxPlaces == {<<"0xaa", 100>>, <<"0xaa", 101>>, <<"0xbb", 101>>}

Tiers == {"none", "bronze", "silver", "gold", "platinum"}

Channels == {"pulse", "boost", "checkin", "mega-pulse", "challenge", "reward",
             "tier", "badge", "stx-transfer", "leaderboard-update", "rollback"}

(* block.timestamp of the block at height h, in seconds *)
BlockTimestamp(h) == h - 90

-----------------------------------------------------------------------------
(* Events as processTransaction dispatches them.  type is the event's type *)
(* string; tag is data.event of a print event.  One record shape serves    *)
(* every kind; a field a kind does not carry is 0 or "".                   *)

Ev(type, tag, user, points, fee, streak, multiplier, tier) ==
    [type |-> type, tag |-> tag, user |-> user, points |-> points, fee |-> fee,
     streak |-> streak, multiplier |-> multiplier, tier |-> tier]

PulseEvents == {Ev("print_event", "pulse-sent", u, 60, 3, 2, 0, "") : u \in Users}
BoostEvents == {Ev("print_event", "boost-activated", "SP1", 60, 3, 0, 0, "")}
CheckinEvents == {Ev("print_event", "daily-checkin", "SP2", 60, 0, 0, 0, "")}
MegaPulseEvents == {Ev("print_event", "mega-pulse", "SP1", 450, 3, 0, 2, "")}
ChallengeEvents == {Ev("print_event", "challenge-completed", "SP2", 60, 3, 0, 0, "")}
\* reward-claimed: points carries points_spent, tier carries new_tier
RewardEvents == {Ev("print_event", "reward-claimed", "SP1", 50, 0, 0, 0, "gold")}
\* tier-achieved: tier carries the event's tier
TierEvents == {Ev("print_event", "tier-achieved", "SP1", 0, 0, 0, 0, "silver")}
UnknownEvents == {Ev("print_event", "something-unrecognized", "SP1", 0, 0, 0, 0, "")}
\* point-earning events whose points land one user on and just under each tier threshold
ThresholdEvents ==
    {Ev("print_event", "boost-activated", "SP1", 1, 3, 0, 0, ""),
     Ev("print_event", "pulse-sent", "SP1", 99, 3, 1, 0, ""),
     Ev("print_event", "daily-checkin", "SP1", 499, 0, 0, 0, ""),
     Ev("print_event", "challenge-completed", "SP1", 999, 3, 0, 0, ""),
     Ev("print_event", "mega-pulse", "SP1", 4999, 3, 0, 2, "")}
\* pulses of one user with a streak of -1, 0, 3 and 7
StreakEvents == {Ev("print_event", "pulse-sent", "SP1", 60, 3, s, 0, "") : s \in {-1, 0, 3, 7}}
\* nft mint: user carries data.recipient
NFTEvents == {Ev("nft_mint_event", "", "SP2", 0, 0, 0, 0, "")}
\* stx transfer: user carries data.sender, fee carries data.amount
STXEvents == {Ev("stx_transfer_event", "", "SP1", 0, 7, 0, 0, "")}

-----------------------------------------------------------------------------
(* EventEmitter.emit: the listeners of a channel are called in registration *)
(* order; a listener that throws ends the emit, the exception leaves emit   *)
(* and the listeners registered after it are not called.  A channel with    *)
(* no listener emits nothing and throws nothing.                            *)

FirstThrower(ch) ==
    IF \E i \in 1..Len(listeners[ch]) : listeners[ch][i] = "throw"
    THEN CHOOSE i \in 1..Len(listeners[ch]) :
            /\ listeners[ch][i] = "throw"
            /\ \A j \in 1..(i - 1) : listeners[ch][j] # "throw"
    ELSE 0

EmitThrows(ch) == FirstThrower(ch) # 0

\* what a listener called for user's event finds in the store st at that moment
Seen(st, user) ==
    [records |-> Len(st.activities),
     lastId |-> IF st.activities = << >> THEN "" ELSE st.activities[Len(st.activities)].id,
     totalFees |-> st.totalFees,
     totalPoints |-> IF user \in DOMAIN st.leaderboard
                     THEN st.leaderboard[user].totalPoints ELSE 0]

(* What one emit(ch, arg) call did: how many listeners it called, whether   *)
(* it threw, and the store (st) the listeners were called with in place.    *)
Emit(ch, user, st) ==
    [channel |-> ch,
     user |-> user,
     invoked |-> IF EmitThrows(ch) THEN FirstThrower(ch) ELSE Len(listeners[ch]),
     threw |-> EmitThrows(ch),
     seen |-> Seen(st, user)]

\* the three store fields the handlers write
Written(acts, lb, fees) == [activities |-> acts, leaderboard |-> lb, totalFees |-> fees]

-----------------------------------------------------------------------------
(* The result of a handler: the store fields it writes, the emits it made,  *)
(* and whether an exception left it.                                        *)

Result(acts, lb, fees, ems, threw) ==
    [activities |-> acts, leaderboard |-> lb, totalFees |-> fees,
     emitted |-> ems, threw |-> threw]

(* ActivityRecord.  metadata keeps the fields the handlers copy from the    *)
(* event that the model's events carry (streak, multiplier, tier).          *)
Activity(suffix, user, eventType, points, fee, blockHeight, txHash, meta) ==
    [id |-> txHash \o suffix, user |-> user, eventType |-> eventType,
     points |-> points, fee |-> fee, blockHeight |-> blockHeight,
     txHash |-> txHash, timestamp |-> BlockTimestamp(blockHeight) * 1000,
     metadata |-> meta]

Meta(streak, multiplier, tier) ==
    [streak |-> streak, multiplier |-> multiplier, tier |-> tier]

-----------------------------------------------------------------------------
(* updateLeaderboard *)

PlatinumPoints == 5000
GoldPoints == 1000
SilverPoints == 500
BronzePoints == 100

NewEntry(user) ==
    [user |-> user, totalPoints |-> 0, totalPulses |-> 0, currentStreak |-> 0,
     longestStreak |-> 0, tier |-> "none"]

\* the chain with its branches in ascending order: the first test shadows the others
TierUpdateAscending(totalPoints, tier) ==
    IF totalPoints >= BronzePoints THEN "bronze"
    ELSE IF totalPoints >= SilverPoints THEN "silver"
    ELSE IF totalPoints >= GoldPoints THEN "gold"
    ELSE IF totalPoints >= PlatinumPoints THEN "platinum"
    ELSE tier

\* the chain with strict comparisons: a total exactly on a threshold stays below it
TierUpdateStrict(totalPoints, tier) ==
    IF totalPoints > PlatinumPoints THEN "platinum"
    ELSE IF totalPoints > GoldPoints THEN "gold"
    ELSE IF totalPoints > SilverPoints THEN "silver"
    ELSE IF totalPoints > BronzePoints THEN "bronze"
    ELSE tier

\* the if / else-if chain: below 100 points no branch is taken and the tier stays
TierUpdate(totalPoints, tier) ==
    IF totalPoints >= PlatinumPoints THEN "platinum"
    ELSE IF totalPoints >= GoldPoints THEN "gold"
    ELSE IF totalPoints >= SilverPoints THEN "silver"
    ELSE IF totalPoints >= BronzePoints THEN "bronze"
    ELSE tier

\* an update that writes the streak over longestStreak whether it is longer or not
UpdatedEntryOverwritingLongest(lb, user, points, pulses, streak) ==
    LET e0 == IF user \in DOMAIN lb THEN lb[user] ELSE NewEntry(user)
        e1 == [e0 EXCEPT !.totalPoints = @ + points, !.totalPulses = @ + pulses]
        e2 == IF streak > 0
              THEN [e1 EXCEPT !.currentStreak = streak, !.longestStreak = streak]
              ELSE e1
    IN  [e2 EXCEPT !.tier = TierUpdate(e2.totalPoints, @)]

UpdatedEntry(lb, user, points, pulses, streak) ==
    LET e0 == IF user \in DOMAIN lb THEN lb[user] ELSE NewEntry(user)
        e1 == [e0 EXCEPT !.totalPoints = @ + points, !.totalPulses = @ + pulses]
        e2 == IF streak > 0
              THEN [e1 EXCEPT !.currentStreak = streak,
                              !.longestStreak = IF streak > @ THEN streak ELSE @]
              ELSE e1
    IN  [e2 EXCEPT !.tier = TierUpdate(e2.totalPoints, @)]

\* the leaderboard after updateLeaderboard(user, points, pulses, streak)
UpdateLeaderboard(lb, user, points, pulses, streak) ==
    [u \in (DOMAIN lb) \cup {user} |->
        IF u = user THEN UpdatedEntry(lb, user, points, pulses, streak) ELSE lb[u]]

-----------------------------------------------------------------------------
(* The handlers of the point-earning print events: push the record, add the *)
(* fee, update the leaderboard (which emits leaderboard-update), then emit  *)
(* the activity channel.  An exception from the first emit skips the second.*)

\* handlers that put the new record in front of the ledger (unshift for push)
EarningPrepending(st, act, fee, pulses, streak, ch) ==
    LET lb == UpdateLeaderboard(st.leaderboard, act.user, act.points, pulses, streak)
        now == Written(<<act>> \o st.activities, lb, st.totalFees + fee)
        e1 == Emit("leaderboard-update", act.user, now)
    IN  Result(now.activities, lb, now.totalFees,
               IF e1.threw THEN <<e1>> ELSE <<e1, Emit(ch, act.user, now)>>,
               e1.threw \/ EmitThrows(ch))

\* handlers that emit the activity channel first and write to the store afterwards
EarningNotifyingFirst(st, act, fee, pulses, streak, ch) ==
    LET lb == UpdateLeaderboard(st.leaderboard, act.user, act.points, pulses, streak)
        now == Written(Append(st.activities, act), lb, st.totalFees + fee)
        e0 == Emit(ch, act.user, st)
    IN  Result(now.activities, lb, now.totalFees,
               IF e0.threw THEN <<e0>>
               ELSE <<e0, Emit("leaderboard-update", act.user, now)>>,
               e0.threw \/ EmitThrows("leaderboard-update"))

Earning(st, act, fee, pulses, streak, ch) ==
    LET lb == UpdateLeaderboard(st.leaderboard, act.user, act.points, pulses, streak)
        now == Written(Append(st.activities, act), lb, st.totalFees + fee)
        e1 == Emit("leaderboard-update", act.user, now)
    IN  Result(now.activities, lb, now.totalFees,
               IF e1.threw THEN <<e1>> ELSE <<e1, Emit(ch, act.user, now)>>,
               e1.threw \/ EmitThrows(ch))

HandlePulseEvent(st, ev, txHash, h) ==
    Earning(st,
            Activity("-pulse", ev.user, "pulse", ev.points, ev.fee, h, txHash,
                     Meta(ev.streak, 0, "")),
            ev.fee, 1, ev.streak, "pulse")

HandleBoostEvent(st, ev, txHash, h) ==
    Earning(st,
            Activity("-boost", ev.user, "boost", ev.points, ev.fee, h, txHash,
                     Meta(0, 0, "")),
            ev.fee, 0, 0, "boost")

\* the check-in record has fee 0 and totalFees is not touched
HandleCheckinEvent(st, ev, txHash, h) ==
    Earning(st,
            Activity("-checkin", ev.user, "checkin", ev.points, 0, h, txHash,
                     Meta(0, 0, "")),
            0, 0, 0, "checkin")

\* a mega pulse counted as one pulse whatever its multiplier
HandleMegaPulseEventCountingOne(st, ev, txHash, h) ==
    Earning(st,
            Activity("-mega", ev.user, "mega-pulse", ev.points, ev.fee, h, txHash,
                     Meta(0, ev.multiplier, "")),
            ev.fee, 1, 0, "mega-pulse")

HandleMegaPulseEvent(st, ev, txHash, h) ==
    Earning(st,
            Activity("-mega", ev.user, "mega-pulse", ev.points, ev.fee, h, txHash,
                     Meta(0, ev.multiplier, "")),
            ev.fee, ev.multiplier, 0, "mega-pulse")

HandleChallengeEvent(st, ev, txHash, h) ==
    Earning(st,
            Activity("-challenge", ev.user, "challenge", ev.points, ev.fee, h, txHash,
                     Meta(0, 0, "")),
            ev.fee, 0, 0, "challenge")

(* reward-claimed and tier-achieved: push the record, overwrite the tier of *)
(* an entry that exists (none is created), emit the activity channel.       *)

SetTier(lb, user, tier) ==
    IF user \in DOMAIN lb THEN [lb EXCEPT ![user].tier = tier] ELSE lb

\* a reward handler that also takes the spent points off the user's total
HandleRewardEventDebiting(st, ev, txHash, h) ==
    LET lb == SetTier(st.leaderboard, ev.user, ev.tier)
        now == Written(Append(st.activities,
                              Activity("-reward", ev.user, "reward", 0 - ev.points, 0, h,
                                       txHash, Meta(0, 0, ev.tier))),
                       IF ev.user \in DOMAIN lb
                       THEN [lb EXCEPT ![ev.user].totalPoints = @ - ev.points]
                       ELSE lb,
                       st.totalFees)
    IN  Result(now.activities, now.leaderboard, now.totalFees,
               <<Emit("reward", ev.user, now)>>,
               EmitThrows("reward"))

HandleRewardEvent(st, ev, txHash, h) ==
    LET now == Written(Append(st.activities,
                              Activity("-reward", ev.user, "reward", 0 - ev.points, 0, h,
                                       txHash, Meta(0, 0, ev.tier))),
                       SetTier(st.leaderboard, ev.user, ev.tier),
                       st.totalFees)
    IN  Result(now.activities, now.leaderboard, now.totalFees,
               <<Emit("reward", ev.user, now)>>,
               EmitThrows("reward"))

HandleTierEvent(st, ev, txHash, h) ==
    LET now == Written(Append(st.activities,
                              Activity("-tier", ev.user, "tier", 0, 0, h, txHash,
                                       Meta(0, 0, ev.tier))),
                       SetTier(st.leaderboard, ev.user, ev.tier),
                       st.totalFees)
    IN  Result(now.activities, now.leaderboard, now.totalFees,
               <<Emit("tier", ev.user, now)>>,
               EmitThrows("tier"))

\* a switch whose default branch treats the event as a pulse
ProcessPrintEventDefaultingToPulse(st, ev, txHash, h) ==
    LET r == CASE ev.tag = "boost-activated" -> HandleBoostEvent(st, ev, txHash, h)
               [] ev.tag = "daily-checkin" -> HandleCheckinEvent(st, ev, txHash, h)
               [] ev.tag = "mega-pulse" -> HandleMegaPulseEvent(st, ev, txHash, h)
               [] ev.tag = "challenge-completed" -> HandleChallengeEvent(st, ev, txHash, h)
               [] ev.tag = "reward-claimed" -> HandleRewardEvent(st, ev, txHash, h)
               [] ev.tag = "tier-achieved" -> HandleTierEvent(st, ev, txHash, h)
               [] OTHER -> HandlePulseEvent(st, ev, txHash, h)
    IN  [r EXCEPT !.threw = FALSE]

(* processPrintEvent: the switch on data.event inside try/catch.  Whatever  *)
(* a handler threw is caught and logged; what it had written stays.         *)
ProcessPrintEvent(st, ev, txHash, h) ==
    LET r == CASE ev.tag = "pulse-sent" -> HandlePulseEvent(st, ev, txHash, h)
               [] ev.tag = "boost-activated" -> HandleBoostEvent(st, ev, txHash, h)
               [] ev.tag = "daily-checkin" -> HandleCheckinEvent(st, ev, txHash, h)
               [] ev.tag = "mega-pulse" -> HandleMegaPulseEvent(st, ev, txHash, h)
               [] ev.tag = "challenge-completed" -> HandleChallengeEvent(st, ev, txHash, h)
               [] ev.tag = "reward-claimed" -> HandleRewardEvent(st, ev, txHash, h)
               [] ev.tag = "tier-achieved" -> HandleTierEvent(st, ev, txHash, h)
               [] OTHER -> Result(st.activities, st.leaderboard, st.totalFees, << >>, FALSE)
    IN  [r EXCEPT !.threw = FALSE]

(* processNFTEvent and processSTXTransfer: push the record and emit.  No    *)
(* try/catch: an exception from emit leaves the handler.                    *)
ProcessNFTEvent(st, ev, txHash, h) ==
    LET user == IF ev.user = "" THEN "unknown" ELSE ev.user
        now == Written(Append(st.activities,
                              Activity("-nft", user, "badge-minted", 0, 0, h, txHash,
                                       Meta(0, 0, ""))),
                       st.leaderboard, st.totalFees)
    IN  Result(now.activities, now.leaderboard, now.totalFees,
               <<Emit("badge", user, now)>>,
               EmitThrows("badge"))

ProcessSTXTransfer(st, ev, txHash, h) ==
    LET now == Written(Append(st.activities,
                              Activity("-stx", ev.user, "stx-transfer", 0, ev.fee, h,
                                       txHash, Meta(0, 0, ""))),
                       st.leaderboard, st.totalFees)
    IN  Result(now.activities, now.leaderboard, now.totalFees,
               <<Emit("stx-transfer", ev.user, now)>>,
               EmitThrows("stx-transfer"))

\* a dispatch that skips an event whose record identifier the ledger already holds
ProcessEventDeduplicating(st, ev, txHash, h) ==
    LET r == CASE ev.type = "print_event" -> ProcessPrintEvent(st, ev, txHash, h)
               [] ev.type = "nft_mint_event" -> ProcessNFTEvent(st, ev, txHash, h)
               [] ev.type = "stx_transfer_event" -> ProcessSTXTransfer(st, ev, txHash, h)
               [] OTHER -> Result(st.activities, st.leaderboard, st.totalFees, << >>, FALSE)
        n == Len(st.activities)
    IN  IF /\ Len(r.activities) = n + 1
           /\ \E i \in 1..n : st.activities[i].id = r.activities[n + 1].id
        THEN Result(st.activities, st.leaderboard, st.totalFees, << >>, FALSE)
        ELSE r

\* a dispatch that files a new record in front of the records of higher blocks
ProcessEventOrderingByHeight(st, ev, txHash, h) ==
    LET r == CASE ev.type = "print_event" -> ProcessPrintEvent(st, ev, txHash, h)
               [] ev.type = "nft_mint_event" -> ProcessNFTEvent(st, ev, txHash, h)
               [] ev.type = "stx_transfer_event" -> ProcessSTXTransfer(st, ev, txHash, h)
               [] OTHER -> Result(st.activities, st.leaderboard, st.totalFees, << >>, FALSE)
        n == Len(st.activities)
    IN  IF Len(r.activities) = n + 1
        THEN [r EXCEPT !.activities =
                 SelectSeq(st.activities, LAMBDA a : a.blockHeight <= h)
                     \o <<r.activities[n + 1]>>
                     \o SelectSeq(st.activities, LAMBDA a : a.blockHeight > h)]
        ELSE r

\* the dispatch on event.type in processTransaction's loop
ProcessEvent(st, ev, txHash, h) ==
    CASE ev.type = "print_event" -> ProcessPrintEvent(st, ev, txHash, h)
      [] ev.type = "nft_mint_event" -> ProcessNFTEvent(st, ev, txHash, h)
      [] ev.type = "stx_transfer_event" -> ProcessSTXTransfer(st, ev, txHash, h)
      [] OTHER -> Result(st.activities, st.leaderboard, st.totalFees, << >>, FALSE)

-----------------------------------------------------------------------------
(* handleRollback: one filter pass per listed block, then emit rollback *)

\* a removal that takes out only the first record of each listed block
RECURSIVE RemoveBlocksFirstRecordOnly(_, _)
RemoveBlocksFirstRecordOnly(acts, rollback) ==
    IF rollback = << >> THEN acts
    ELSE LET hit == {i \in 1..Len(acts) : acts[i].blockHeight = Head(rollback)}
             first == IF hit = {} THEN 0 ELSE CHOOSE i \in hit : \A j \in hit : i <= j
         IN  RemoveBlocksFirstRecordOnly(
                 [i \in 1..(Len(acts) - (IF first = 0 THEN 0 ELSE 1)) |->
                     IF first = 0 \/ i < first THEN acts[i] ELSE acts[i + 1]],
                 Tail(rollback))

RECURSIVE RemoveBlocks(_, _)
RemoveBlocks(acts, rollback) ==
    IF rollback = << >> THEN acts
    ELSE RemoveBlocks(SelectSeq(acts, LAMBDA a : a.blockHeight # Head(rollback)),
                      Tail(rollback))

\* a rollback that also takes the fees of the removed records back
HandleRollbackUndoingFees(st, rollback) ==
    LET kept == RemoveBlocks(st.activities, rollback)
        gone == SelectSeq(st.activities, LAMBDA a : a.blockHeight \in {rollback[i] : i \in 1..Len(rollback)})
        now == Written(kept, st.leaderboard,
                       IF gone = << >> THEN st.totalFees ELSE st.totalFees - gone[1].fee)
    IN  Result(now.activities, now.leaderboard, now.totalFees,
               <<Emit("rollback", "", now)>>, EmitThrows("rollback"))

HandleRollback(st, rollback) ==
    LET now == Written(RemoveBlocks(st.activities, rollback), st.leaderboard, st.totalFees)
    IN  Result(now.activities, now.leaderboard, now.totalFees,
               <<Emit("rollback", "", now)>>, EmitThrows("rollback"))

-----------------------------------------------------------------------------
(* Call frames of processPayload.  status: "running" (suspended at an       *)
(* await), "resolved" (returned) or "rejected" (an exception left it).      *)
(* txHash/height are those of the transaction the loops are in ("" before   *)
(* the first one); txCount counts the transactions reached so far.  A       *)
(* settled call keeps its status only.  mutated records whether the call    *)
(* has changed the store so far.                                            *)

Frame(status, txHash, height, txCount, mutated) ==
    IF status = "running"
    THEN [status |-> status, txHash |-> txHash, height |-> height, txCount |-> txCount,
          mutated |-> mutated]
    ELSE [status |-> status, txHash |-> "", height |-> 0, txCount |-> 0,
          mutated |-> mutated]

NoEvent == Ev("", "", "", 0, 0, 0, 0, "")

\* no decodeClarityValue call has returned
Pending == [kind |-> "pending"]

\* no query has been answered
NoReply == [op |-> "none", user |-> "", limit |-> 0, result |-> << >>]

NoQuery == reply = NoReply

\* the route has answered no request
(* A webhook request: its Authorization header and its token query          *)
(* parameter, each missing (length 0) or present (length 1); n counts the   *)
(* requests that have arrived.                                              *)
Request(n, authorization, token) == [n |-> n, authorization |-> authorization, token |-> token]

NoRequest == responses = << >> /\ broadcasts = << >> /\ request = Request(0, << >>, << >>)

\* the registration script has not been started and the remote API holds no hook
Idle == [phase |-> "idle", dupes |-> << >>, todo |-> << >>, runs |-> 0]

NoScript == hooks = << >> /\ issued = 0 /\ script = Idle

NoContract == contract = [name |-> "none"]

Unit(op, call, ev, txHash, height, rollback) ==
    [op |-> op, call |-> call, ev |-> ev, txHash |-> txHash, height |-> height,
     rollback |-> rollback]

Store == [activities |-> activities, leaderboard |-> leaderboard, totalFees |-> totalFees]

Running == {d \in 1..Len(calls) : calls[d].status = "running"}

\* the listeners backend/src/index.ts registers on the singleton
ServerListeners ==
    [ch \in Channels |-> IF ch \in {"stx-transfer", "rollback"} THEN << >> ELSE <<"ok">>]

\* a second listener registered in front of (or as the first of) channel ch, which throws
FailingListeners(ch) ==
    [ServerListeners EXCEPT ![ch] = <<"throw", "ok">>]

(* The runs explored.  Each draws its deliveries from one alphabet:         *)
(*  - ledger runs: two event kinds, every transaction place and rollback;   *)
(*  - earning runs: the five point-earning print events;                    *)
(*  - tier runs: the events that do not go through updateLeaderboard;       *)
(*  - threshold runs: point totals on and just under the tier thresholds;   *)
(*  - streak runs: pulses with streaks -1, 0, 3 and 7;                      *)
(*  - subscriber runs: one listener throws on one channel.                  *)
Env(events, places, rollbacks) ==
    [events |-> events, places |-> places, rollbacks |-> rollbacks]

LedgerEnv ==
    Env({e \in PulseEvents : e.user = "SP1"} \cup STXEvents, TxPlaces, RollbackLists)

EarningEnv ==
    Env(PulseEvents \cup BoostEvents \cup CheckinEvents \cup MegaPulseEvents
            \cup ChallengeEvents,
        {<<"0xaa", 100>>}, {<<100>>})

TierEnv ==
    Env(MegaPulseEvents \cup RewardEvents \cup TierEvents \cup UnknownEvents
            \cup NFTEvents \cup STXEvents,
        {<<"0xaa", 100>>}, {<<100>>})

ThresholdEnv == Env(ThresholdEvents, {<<"0xaa", 100>>}, {<<100>>})

StreakEnv == Env(StreakEvents, {<<"0xaa", 100>>}, {<<100>>})

SubscriberEnv ==
    Env({e \in PulseEvents : e.user = "SP1"} \cup NFTEvents \cup STXEvents,
        {<<"0xaa", 100>>}, {<<100>>})

\* the channels the subscriber runs emit on
FailingChannels == {"leaderboard-update", "pulse", "badge", "stx-transfer", "rollback"}

Init ==
    /\ activities = << >>
    /\ leaderboard = << >>
    /\ totalFees = 0
    /\ totalTransactions = 0
    /\ \/ env \in {LedgerEnv, EarningEnv, TierEnv, ThresholdEnv, StreakEnv} /\ listeners = ServerListeners
       \/ env = SubscriberEnv /\ listeners \in {FailingListeners(ch) : ch \in FailingChannels}
    /\ calls = << >>
    /\ draining = FALSE
    /\ units = 0
    /\ last = Unit("init", 0, NoEvent, "", 0, << >>)
    /\ emitted = << >>
    /\ hexValue = << >>
    /\ decoded = Pending
    /\ NoQuery
    /\ NoRequest
    /\ NoScript
    /\ NoContract

\* does a handler's result differ from the store it started from?
Changes(r) ==
    \/ r.activities # activities
    \/ r.leaderboard # leaderboard
    \/ r.totalFees # totalFees

\* write a handler's result to the store
Apply(r) ==
    /\ activities' = r.activities
    /\ leaderboard' = r.leaderboard
    /\ totalFees' = r.totalFees
    /\ emitted' = r.emitted

(* May the runtime call the route handler now?  Express calls it from the   *)
(* callback that completes a request body.  Promise continuations run once  *)
(* the callbacks of the current tick are done and then run until none is    *)
(* left, so a request is accepted when no call is suspended, or when calls  *)
(* were started in this same tick and no continuation has run yet (two      *)
(* requests completed by one socket read).                                  *)
CanAccept ==
    /\ Len(calls) < MaxDeliveries
    /\ ~draining

(* The route handler calls processPayload for a request whose payload has a *)
(* non-empty rollback list: handleRollback runs, then the call is suspended *)
(* at "await this.handleRollback(rollback)" (or rejected by its exception). *)
AcceptRollback(rb) ==
    /\ CanAccept
    /\ LET r == HandleRollback(Store, rb)
       IN  /\ Apply(r)
           /\ calls' = Append(calls,
                  Frame(IF r.threw THEN "rejected" ELSE "running", "", 0, 0, Changes(r)))
    /\ last' = Unit("rollback", Len(calls) + 1, NoEvent, "", 0, rb)
    /\ UNCHANGED <<totalTransactions, listeners, env, draining, units, decoding, querying, serving, registering, contract>>

(* The same for a payload without rollback whose first transaction (hash x, *)
(* in a block at height h) has ev as its first event: the event is handled  *)
(* before the first await suspends the call.                                *)
AcceptEvent(ev, x, h) ==
    /\ CanAccept
    /\ units < MaxUnits
    /\ LET r == ProcessEvent(Store, ev, x, h)
       IN  /\ Apply(r)
           /\ calls' = Append(calls,
                  Frame(IF r.threw THEN "rejected" ELSE "running", x, h, 1, Changes(r)))
    /\ last' = Unit("event", Len(calls) + 1, ev, x, h, << >>)
    /\ units' = units + 1
    /\ UNCHANGED <<totalTransactions, listeners, env, draining, decoding, querying, serving, registering, contract>>

(* The same for a payload with no rollback and no transaction: the call     *)
(* runs to its end without suspending; txCount is 0.                        *)
AcceptEmpty ==
    /\ CanAccept
    /\ calls' = Append(calls, Frame("resolved", "", 0, 0, FALSE))
    /\ totalTransactions' = totalTransactions + 0
    /\ last' = Unit("finish", Len(calls) + 1, NoEvent, "", 0, << >>)
    /\ emitted' = << >>
    /\ UNCHANGED <<activities, leaderboard, totalFees, listeners, env, draining, units,
                   decoding, querying, serving, registering, contract>>

(* A continuation of call d handles the next event of the payload: the next *)
(* event of the current transaction (newTx = FALSE), or the first event of  *)
(* the next transaction (hash x, height h).                                 *)
ResumeEvent(d, ev, newTx, x, h) ==
    /\ d \in Running
    /\ units < MaxUnits
    /\ newTx \/ (calls[d].txHash = x /\ calls[d].height = h /\ calls[d].txCount > 0)
    /\ LET r == ProcessEvent(Store, ev, x, h)
       IN  /\ Apply(r)
           /\ calls' = [calls EXCEPT ![d] =
                  Frame(IF r.threw THEN "rejected" ELSE "running", x, h,
                        IF newTx THEN @.txCount + 1 ELSE @.txCount,
                        @.mutated \/ Changes(r))]
           /\ draining' = (Running \ (IF r.threw THEN {d} ELSE {}) # {})
    /\ last' = Unit("event", d, ev, x, h, << >>)
    /\ units' = units + 1
    /\ UNCHANGED <<totalTransactions, listeners, env, decoding, querying, serving, registering, contract>>

(* The loops of call d are done: totalTransactions += txCount, and the call *)
(* resolves.                                                                *)
Finish(d) ==
    /\ d \in Running
    /\ totalTransactions' = totalTransactions + calls[d].txCount
    /\ calls' = [calls EXCEPT ![d] =
           Frame("resolved", "", 0, 0, @.mutated \/ @.txCount > 0)]
    /\ draining' = (Running \ {d} # {})
    /\ last' = Unit("finish", d, NoEvent, "", 0, << >>)
    /\ emitted' = << >>
    /\ UNCHANGED <<activities, leaderboard, totalFees, listeners, env, units, decoding, querying, serving, registering, contract>>

Next ==
    \/ \E rb \in env.rollbacks : AcceptRollback(rb)
    \/ \E ev \in env.events, pl \in env.places : AcceptEvent(ev, pl[1], pl[2])
    \/ AcceptEmpty
    \/ \E d \in 1..MaxDeliveries, ev \in env.events, newTx \in BOOLEAN, pl \in env.places :
          ResumeEvent(d, ev, newTx, pl[1], pl[2])
    \/ \E d \in 1..MaxDeliveries : Finish(d)

Spec == Init /\ [][Next]_vars

-----------------------------------------------------------------------------
(* Whole payloads.  processPayload takes the rollback list from the payload *)
(* or its event object, picks the list of apply blocks by the first shape   *)
(* that matches, walks blocks, transactions and events in nested loops and  *)
(* adds the number of transactions to totalTransactions at the end.  A      *)
(* field that may be missing is a sequence of length 0 (missing) or 1.      *)

None == << >>
Some(x) == <<x>>

\* a transaction; hasId is FALSE when it has no transaction_identifier
Tx(hasId, hash, events) == [hasId |-> hasId, hash |-> hash, events |-> events]

Block(index, transactions) == [index |-> index, transactions |-> transactions]

\* event.contract_log: tx_id, block_identifier.index and the fields of the log record
ContractLog(tx_id, index, data) == [tx_id |-> tx_id, index |-> index, data |-> data]

\* a single transaction directly in event: the transaction and the block index beside it
Inline(tx, index) == [tx |-> tx, index |-> index]

\* payload.event; isObject is FALSE for a value such as a string
EventObject(isObject, rollback, apply, blocks, inline, contract_log) ==
    [isObject |-> isObject, rollback |-> rollback, apply |-> apply, blocks |-> blocks,
     inline |-> inline, contract_log |-> contract_log]

NoFields == EventObject(TRUE, None, None, None, None, None)

Payload(rollback, apply, event) ==
    [rollback |-> rollback, apply |-> apply, event |-> event]

\* p?.rollback ?? []: the list nested in event is not looked at
RollbackOfTopLevelOnly(p) ==
    IF p.rollback # None THEN p.rollback[1] ELSE << >>

\* p?.rollback ?? p?.event?.rollback ?? []
RollbackOf(p) ==
    IF p.rollback # None THEN p.rollback[1]
    ELSE IF p.event # None /\ p.event[1].rollback # None THEN p.event[1].rollback[1]
    ELSE << >>

\* the block synthesized for a contract_log: one transaction with one event of type contract_log
ContractLogBlocks(log) ==
    <<Block(log.index,
            <<Tx(TRUE, log.tx_id, <<[log.data EXCEPT !.type = "contract_log"]>>)>>)>>

\* a resolution that looks at event.apply before the top-level apply
ResolveApplyBlocksEventFirst(p) ==
    IF p.event # None /\ p.event[1].apply # None THEN p.event[1].apply[1]
    ELSE IF p.apply # None THEN p.apply[1]
    ELSE IF p.event # None /\ p.event[1].blocks # None THEN p.event[1].blocks[1]
    ELSE IF p.event # None /\ p.event[1].isObject
         THEN IF p.event[1].inline # None
              THEN <<Block(p.event[1].inline[1].index, <<p.event[1].inline[1].tx>>)>>
              ELSE IF p.event[1].contract_log # None
                   THEN ContractLogBlocks(p.event[1].contract_log[1])
                   ELSE << >>
         ELSE << >>

\* a resolution that takes an event object of no known shape for a transaction
ResolveApplyBlocksWrappingEvent(p) ==
    IF p.apply # None THEN p.apply[1]
    ELSE IF p.event # None /\ p.event[1].apply # None THEN p.event[1].apply[1]
    ELSE IF p.event # None /\ p.event[1].blocks # None THEN p.event[1].blocks[1]
    ELSE IF p.event # None /\ p.event[1].isObject
         THEN IF p.event[1].inline # None
              THEN <<Block(p.event[1].inline[1].index, <<p.event[1].inline[1].tx>>)>>
              ELSE IF p.event[1].contract_log # None
                   THEN ContractLogBlocks(p.event[1].contract_log[1])
                   ELSE <<Block(0, <<Tx(TRUE, "", << >>)>>)>>
         ELSE << >>

\* the if / else-if chain that fills applyBlocks
ResolveApplyBlocks(p) ==
    IF p.apply # None THEN p.apply[1]
    ELSE IF p.event # None /\ p.event[1].apply # None THEN p.event[1].apply[1]
    ELSE IF p.event # None /\ p.event[1].blocks # None THEN p.event[1].blocks[1]
    ELSE IF p.event # None /\ p.event[1].isObject
         THEN IF p.event[1].inline # None
              THEN <<Block(p.event[1].inline[1].index, <<p.event[1].inline[1].tx>>)>>
              ELSE IF p.event[1].contract_log # None
                   THEN ContractLogBlocks(p.event[1].contract_log[1])
                   ELSE << >>
         ELSE << >>

(* What the nested loops go through, in their order: for each block, for    *)
(* each of its transactions the entry into processTransaction, then each    *)
(* of its events.                                                           *)
Item(kind, tx, ev, height) == [kind |-> kind, tx |-> tx, ev |-> ev, height |-> height]

RECURSIVE Flatten(_)
Flatten(seqs) == IF seqs = << >> THEN << >> ELSE Head(seqs) \o Flatten(Tail(seqs))

TxItems(tx, height) ==
    <<Item("tx", tx, NoEvent, height)>>
        \o [e \in 1..Len(tx.events) |-> Item("event", tx, tx.events[e], height)]

\* loops that walk the events of a transaction from the last to the first
ItemsLastEventFirst(blocks) ==
    Flatten([b \in 1..Len(blocks) |->
        Flatten([t \in 1..Len(blocks[b].transactions) |->
            LET tx == blocks[b].transactions[t]
                n == Len(tx.events)
            IN  <<Item("tx", tx, NoEvent, blocks[b].index)>>
                  \o [e \in 1..n |-> Item("event", tx, tx.events[n + 1 - e], blocks[b].index)]])])

Items(blocks) ==
    Flatten([b \in 1..Len(blocks) |->
        Flatten([t \in 1..Len(blocks[b].transactions) |->
            TxItems(blocks[b].transactions[t], blocks[b].index)])])

\* applyBlocks.reduce((sum, block) => sum + block.transactions.length, 0)
RECURSIVE TxCount(_)
TxCount(blocks) ==
    IF blocks = << >> THEN 0 ELSE Len(Head(blocks).transactions) + TxCount(Tail(blocks))

\* the event types the loop of processTransaction hands to a handler
Dispatched(ev) == ev.type \in {"print_event", "nft_mint_event", "stx_transfer_event"}

\* a run that passes over a transaction without transaction_identifier
RECURSIVE RunToAwaitSkippingTransaction(_, _)
RunToAwaitSkippingTransaction(st, todo) ==
    IF todo = << >>
    THEN [r |-> Result(st.activities, st.leaderboard, st.totalFees, << >>, FALSE),
          todo |-> << >>, ev |-> NoEvent, txHash |-> "", height |-> 0]
    ELSE LET it == Head(todo)
         IN  IF it.kind = "tx" \/ ~it.tx.hasId \/ ~Dispatched(it.ev)
             THEN RunToAwaitSkippingTransaction(st, Tail(todo))
             ELSE [r |-> ProcessEvent(st, it.ev, it.tx.hash, it.height),
                   todo |-> Tail(todo), ev |-> it.ev, txHash |-> it.tx.hash,
                   height |-> it.height]

(* One run of a call from where it is to its next await after a handler,    *)
(* or to the end of its loops: entering a transaction reads                 *)
(* tx.transaction_identifier.hash, which throws when there is no            *)
(* transaction_identifier; an event of another type is passed over.         *)
RECURSIVE RunToAwait(_, _)
RunToAwait(st, todo) ==
    IF todo = << >>
    THEN [r |-> Result(st.activities, st.leaderboard, st.totalFees, << >>, FALSE),
          todo |-> << >>, ev |-> NoEvent, txHash |-> "", height |-> 0]
    ELSE LET it == Head(todo)
         IN  IF it.kind = "tx"
             THEN IF it.tx.hasId
                  THEN RunToAwait(st, Tail(todo))
                  ELSE [r |-> Result(st.activities, st.leaderboard, st.totalFees, << >>, TRUE),
                        todo |-> Tail(todo), ev |-> NoEvent, txHash |-> "",
                        height |-> it.height]
             ELSE IF Dispatched(it.ev)
                  THEN [r |-> ProcessEvent(st, it.ev, it.tx.hash, it.height),
                        todo |-> Tail(todo), ev |-> it.ev, txHash |-> it.tx.hash,
                        height |-> it.height]
                  ELSE RunToAwait(st, Tail(todo))

(* The frame of a processPayload call: its payload, the applyBlocks it      *)
(* resolved, what its loops have left to do, and the records it appended.   *)
PayloadFrame(status, payload, applyBlocks, todo, appended) ==
    [status |-> status, payload |-> payload, applyBlocks |-> applyBlocks,
     todo |-> IF status = "running" THEN todo ELSE << >>, appended |-> appended]

\* the records a handler's result added to the ledger
Added(r) ==
    IF Len(r.activities) = Len(activities) + 1
    THEN <<r.activities[Len(r.activities)]>>
    ELSE << >>

-----------------------------------------------------------------------------
(* The payloads of the payload runs *)

PulseOf(u) == Ev("print_event", "pulse-sent", u, 60, 3, 2, 0, "")
OtherTypeEvent == Ev("ft_transfer_event", "", "SP1", 0, 0, 0, 0, "")

OnePulse(hash, index, u) == <<Block(index, <<Tx(TRUE, hash, <<PulseOf(u)>>)>>)>>

\* two blocks, three transactions (one without events), five events, three of them recognized
TwoBlocks ==
    <<Block(100, <<Tx(TRUE, "0xaa", <<PulseOf("SP1"), OtherTypeEvent,
                                      Ev("stx_transfer_event", "", "SP1", 0, 7, 0, 0, "")>>)>>),
      Block(101, <<Tx(TRUE, "0xbb", << >>),
                   Tx(TRUE, "0xcc", <<Ev("print_event", "something-unrecognized",
                                         "SP2", 0, 0, 0, 0, ""),
                                      Ev("nft_mint_event", "", "SP2", 0, 0, 0, 0, "")>>)>>)>>

\* a contract_log record of the pulse-sent print of transaction 0xee
PulseLog == ContractLog("0xee", 100, PulseOf("SP1"))

\* event holds its transaction directly: with, and without, a transaction_identifier
InlineTx == Inline(Tx(TRUE, "0xdd", <<PulseOf("SP1")>>), 100)
InlineNoId == Inline(Tx(FALSE, "", <<PulseOf("SP1")>>), 100)

OrderPayloads ==
    {Payload(None, Some(TwoBlocks), None),
     Payload(None, Some(OnePulse("0xaa", 100, "SP1") \o OnePulse("0xbb", 101, "SP1")), None),
     Payload(Some(<<100>>), Some(OnePulse("0xaa", 100, "SP2")), None),
     Payload(None, Some(<< >>), None)}

\* payloads that show two shapes at once, and each nested shape alone
ShapePayloads ==
    {Payload(None, Some(OnePulse("0xaa", 100, "SP1")),
             Some(EventObject(TRUE, None, Some(OnePulse("0xbb", 100, "SP1")), None, None, None))),
     Payload(None, None,
             Some(EventObject(TRUE, None, Some(OnePulse("0xbb", 100, "SP1")),
                              Some(OnePulse("0xcc", 100, "SP1")), None, None))),
     Payload(None, None,
             Some(EventObject(TRUE, None, None, Some(OnePulse("0xcc", 100, "SP1")),
                              Some(InlineTx), None))),
     Payload(None, None,
             Some(EventObject(TRUE, None, None, None, Some(InlineTx), Some(PulseLog)))),
     Payload(None, Some(<< >>),
             Some(EventObject(TRUE, None, Some(OnePulse("0xbb", 100, "SP1")), None, None, None)))}

ContractLogPayloads ==
    {Payload(None, None, Some(EventObject(TRUE, None, None, None, None, Some(PulseLog)))),
     Payload(None, None, Some(EventObject(TRUE, None, None, None, None,
                                          Some(ContractLog("", 0, PulseOf("SP2")))))),
     Payload(None, Some(OnePulse("0xaa", 100, "SP1")), None)}

\* payloads of no recognized shape, and one ordinary payload
ShapelessPayloads ==
    {Payload(None, None, None),
     Payload(None, None, Some(EventObject(FALSE, None, None, None, None, None))),
     Payload(None, None, Some(NoFields)),
     Payload(None, Some(OnePulse("0xaa", 100, "SP1")), None)}

\* payloads with a transaction that has no transaction_identifier
MalformedPayloads ==
    {Payload(None, None, Some(EventObject(TRUE, None, None, None, Some(InlineNoId), None))),
     Payload(None, Some(<<Block(100, <<Tx(TRUE, "0xaa", <<PulseOf("SP1")>>),
                                       Tx(FALSE, "", <<PulseOf("SP1")>>),
                                       Tx(TRUE, "0xbb", <<PulseOf("SP1")>>)>>)>>), None),
     Payload(Some(<<100>>), Some(<<Block(101, <<Tx(FALSE, "", << >>)>>)>>), None),
     Payload(Some(<<100>>), Some(<<Block(101, <<Tx(TRUE, "0xcc", <<PulseOf("SP2")>>),
                                               Tx(FALSE, "", <<PulseOf("SP2")>>),
                                               Tx(TRUE, "0xdd", <<PulseOf("SP2")>>)>>)>>),
             None)}

\* a rollback list at the top, nested in event, at both places, and empty at the top
NestedRollback(rb) == Some(EventObject(TRUE, Some(rb), None, None, None, None))

RollbackPayloads ==
    {Payload(None, Some(OnePulse("0xaa", 100, "SP1")), None),
     Payload(None, Some(OnePulse("0xbb", 100, "SP2")), NestedRollback(<<100>>)),
     Payload(Some(<<101>>), Some(OnePulse("0xcc", 101, "SP1")), NestedRollback(<<100>>)),
     Payload(Some(<< >>), Some(OnePulse("0xdd", 101, "SP1")), NestedRollback(<<100>>))}

PayloadEnvs ==
    {[payloads |-> ps] : ps \in {OrderPayloads, ShapePayloads, ContractLogPayloads,
                                 ShapelessPayloads, MalformedPayloads, RollbackPayloads}}

-----------------------------------------------------------------------------
(* The route POST /api/chainhook/events/:eventType, for the requests that   *)
(* authenticateWebhook lets through: await processPayload, then one message *)
(* to every open WebSocket client and status 200; in the catch, status 500. *)

WEBHOOK_SECRET == "chainpulse-secret"

\* a middleware that lets every request with a Bearer authorization through
AuthenticateWebhookAnyBearer(authorization, token) ==
    IF authorization # None /\ authorization[1] \in {"Bearer " \o WEBHOOK_SECRET, "Bearer wrong"}
    THEN "next"
    ELSE IF token = Some(WEBHOOK_SECRET) THEN "next"
    ELSE "401"

\* authenticateWebhook: next() for the header or the token, else the 401 response
AuthenticateWebhook(authorization, token) ==
    IF authorization = Some("Bearer " \o WEBHOOK_SECRET) THEN "next"
    ELSE IF token = Some(WEBHOOK_SECRET) THEN "next"
    ELSE "401"

\* the credentials requests come with
Authorizations == {None, Some("Bearer " \o WEBHOOK_SECRET), Some("Bearer wrong"),
                   Some(WEBHOOK_SECRET)}
Tokens == {None, Some(WEBHOOK_SECRET), Some("wrong")}

\* the requests answered 401 so far
Unauthorized == SelectSeq(responses, LAMBDA r : r.status = 401)

\* the readyState of the connected WebSocket clients
wsClients == <<"OPEN", "CLOSED", "OPEN">>

\* a route that sends the chainhook-event message before it awaits the call
RouteBroadcastBeforeAwait(d, outcome) ==
    IF outcome \in {"resolved", "rejected"}
    THEN [i \in 1..Len(SelectSeq(wsClients, LAMBDA c : c = "OPEN")) |->
             [type |-> "chainhook-event", call |-> d]]
    ELSE << >>

\* the messages sent for call d once its outcome is known
RouteBroadcast(d, outcome) ==
    IF outcome = "resolved"
    THEN [i \in 1..Len(SelectSeq(wsClients, LAMBDA c : c = "OPEN")) |->
             [type |-> "chainhook-event", call |-> d]]
    ELSE << >>

\* the response sent for call d once its outcome is known
RouteResponse(d, outcome) ==
    IF outcome = "resolved" THEN <<[call |-> d, status |-> 200]>>
    ELSE IF outcome = "rejected" THEN <<[call |-> d, status |-> 500]>>
    ELSE << >>

\* what the route does behind its await when this step has settled call d
Served(d) ==
    /\ broadcasts' = broadcasts \o RouteBroadcast(d, calls'[d].status)
    /\ responses' = responses \o RouteResponse(d, calls'[d].status)

-----------------------------------------------------------------------------
(* Deliveries of whole payloads *)

PayloadInit ==
    /\ activities = << >>
    /\ leaderboard = << >>
    /\ totalFees = 0
    /\ totalTransactions = 0
    /\ env \in PayloadEnvs
    /\ listeners = ServerListeners
    /\ calls = << >>
    /\ draining = FALSE
    /\ units = 0
    /\ last = Unit("init", 0, NoEvent, "", 0, << >>)
    /\ emitted = << >>
    /\ hexValue = << >>
    /\ decoded = Pending
    /\ NoQuery
    /\ NoRequest
    /\ NoScript
    /\ NoContract

(* The route handler calls processPayload(p).  With a non-empty rollback    *)
(* list the call runs handleRollback and is suspended at its await.         *)
(* Otherwise it resolves applyBlocks and runs into its loops: without any   *)
(* transaction it reaches its end at once, else it runs to its first await. *)
ReceivePayload(authorization, token, p) ==
    /\ AuthenticateWebhook(authorization, token) = "next"
    /\ CanAccept
    /\ Len(calls) + Len(Unauthorized) < MaxDeliveries
    /\ request' = Request(request.n + 1, authorization, token)
    /\ LET blocks == ResolveApplyBlocks(p)
           d == Len(calls) + 1
       IN  IF RollbackOf(p) # << >>
           THEN LET r == HandleRollback(Store, RollbackOf(p))
                IN  /\ Apply(r)
                    /\ calls' = Append(calls,
                           PayloadFrame(IF r.threw THEN "rejected" ELSE "running",
                                        p, blocks, Items(blocks), << >>))
                    /\ last' = Unit("rollback", d, NoEvent, "", 0, RollbackOf(p))
                    /\ UNCHANGED totalTransactions
           ELSE IF Items(blocks) = << >>
           THEN /\ calls' = Append(calls, PayloadFrame("resolved", p, blocks, << >>, << >>))
                /\ totalTransactions' = totalTransactions + TxCount(blocks)
                /\ last' = Unit("finish", d, NoEvent, "", 0, << >>)
                /\ emitted' = << >>
                /\ UNCHANGED <<activities, leaderboard, totalFees>>
           ELSE LET run == RunToAwait(Store, Items(blocks))
                IN  /\ Apply(run.r)
                    /\ calls' = Append(calls,
                           PayloadFrame(IF run.r.threw THEN "rejected" ELSE "running",
                                        p, blocks, run.todo, Added(run.r)))
                    /\ last' = Unit("event", d, run.ev, run.txHash, run.height, << >>)
                    /\ UNCHANGED totalTransactions
    /\ Served(Len(calls) + 1)
    /\ UNCHANGED <<listeners, env, draining, units, decoding, querying, registering, contract>>

(* A continuation of call d: the loops go on to the next await, or, when    *)
(* they are done, totalTransactions += txCount and the call resolves.       *)
ContinuePayload(d) ==
    /\ d \in Running
    /\ IF calls[d].todo = << >>
       THEN /\ totalTransactions' = totalTransactions + TxCount(calls[d].applyBlocks)
            /\ calls' = [calls EXCEPT ![d] =
                   PayloadFrame("resolved", @.payload, @.applyBlocks, << >>, @.appended)]
            /\ draining' = (Running \ {d} # {})
            /\ last' = Unit("finish", d, NoEvent, "", 0, << >>)
            /\ emitted' = << >>
            /\ UNCHANGED <<activities, leaderboard, totalFees>>
       ELSE LET run == RunToAwait(Store, calls[d].todo)
            IN  /\ Apply(run.r)
                /\ calls' = [calls EXCEPT ![d] =
                       PayloadFrame(IF run.r.threw THEN "rejected" ELSE "running",
                                    @.payload, @.applyBlocks, run.todo,
                                    @.appended \o Added(run.r))]
                /\ draining' = (Running \ (IF run.r.threw THEN {d} ELSE {}) # {})
                /\ last' = Unit("event", d, run.ev, run.txHash, run.height, << >>)
                /\ UNCHANGED totalTransactions
    /\ Served(d)
    /\ UNCHANGED <<listeners, env, units, request, decoding, querying, registering, contract>>

(* A request that authenticateWebhook does not let through: the middleware  *)
(* answers 401 and the route handler is not called.                         *)
RefuseRequest(authorization, token) ==
    /\ AuthenticateWebhook(authorization, token) = "401"
    /\ Len(calls) + Len(Unauthorized) < MaxDeliveries
    /\ request' = Request(request.n + 1, authorization, token)
    /\ responses' = Append(responses, [call |-> 0, status |-> 401])
    /\ UNCHANGED <<activities, leaderboard, totalFees, totalTransactions, listeners, env,
                   calls, draining, units, last, emitted, broadcasts, decoding, querying,
                   registering, contract>>

PayloadNext ==
    \/ \E authorization \in Authorizations, token \in Tokens, p \in env.payloads :
          ReceivePayload(authorization, token, p)
    \/ \E authorization \in Authorizations, token \in Tokens :
          RefuseRequest(authorization, token)
    \/ \E d \in 1..MaxDeliveries : ContinuePayload(d)

PayloadSpec == PayloadInit /\ [][PayloadNext]_vars

-----------------------------------------------------------------------------
(* decodeClarityValue and parseClarityTuple.  A string is a sequence of     *)
(* one-character strings, a buffer a sequence of bytes (0..255).  Offsets   *)
(* are those of the code (the first byte is at offset 0).                   *)

HexDigits == <<"0", "1", "2", "3", "4", "5", "6", "7", "8", "9", "a", "b", "c", "d", "e", "f">>
DecimalDigits == <<"0", "1", "2", "3", "4", "5", "6", "7", "8", "9">>
Letters == <<"a", "b", "c", "d", "e", "f", "g", "h", "i", "j", "k", "l", "m",
             "n", "o", "p", "q", "r", "s", "t", "u", "v", "w", "x", "y", "z">>

\* the value of a hex digit, -1 for any other character
HexDigitValue(c) ==
    IF \E i \in 1..16 : HexDigits[i] = c
    THEN (CHOOSE i \in 1..16 : HexDigits[i] = c) - 1
    ELSE -1

\* Buffer.from(hex, 'hex'): two digits a byte, up to the first pair that is not hex
HexDecode(chars) ==
    LET pairs == Len(chars) \div 2
        bad == {i \in 1..pairs : HexDigitValue(chars[2 * i - 1]) < 0
                                    \/ HexDigitValue(chars[2 * i]) < 0}
        n == IF bad = {} THEN pairs ELSE (CHOOSE i \in bad : \A j \in bad : i <= j) - 1
    IN  [i \in 1..n |-> HexDigitValue(chars[2 * i - 1]) * 16 + HexDigitValue(chars[2 * i])]

\* buffer.toString('hex')
ToHex(bytes) ==
    [i \in 1..(2 * Len(bytes)) |->
        IF i % 2 = 1 THEN HexDigits[(bytes[(i + 1) \div 2] \div 16) + 1]
        ELSE HexDigits[(bytes[i \div 2] % 16) + 1]]

\* buffer.toString('utf-8'), for the characters the model's keys and strings use
CharOf(b) ==
    IF b \in 97..122 THEN Letters[b - 96]
    ELSE IF b \in 48..57 THEN DecimalDigits[b - 47]
    ELSE IF b = 45 THEN "-"
    ELSE "?"

Utf8(bytes) == [i \in 1..Len(bytes) |-> CharOf(bytes[i])]

\* buffer.slice(from, to)
Slice(buffer, from, to) == SubSeq(buffer, from + 1, to)

\* buffer.readUInt16BE(offset)
ReadUInt16BE(buffer, offset) == buffer[offset + 1] * 256 + buffer[offset + 2]

(* BigInt.toString(): the decimal digits of the unsigned number whose       *)
(* big-endian bytes are given, by repeated division by ten.                 *)
RECURSIVE DivideByTen(_, _)
DivideByTen(bytes, carry) ==
    IF bytes = << >> THEN [quotient |-> << >>, remainder |-> carry]
    ELSE LET cur == carry * 256 + Head(bytes)
             rest == DivideByTen(Tail(bytes), cur % 10)
         IN  [quotient |-> <<cur \div 10>> \o rest.quotient, remainder |-> rest.remainder]

IsZero(bytes) == \A i \in 1..Len(bytes) : bytes[i] = 0

RECURSIVE DigitsOf(_)
DigitsOf(bytes) ==
    IF IsZero(bytes) THEN << >>
    ELSE LET d == DivideByTen(bytes, 0)
         IN  DigitsOf(d.quotient) \o <<DecimalDigits[d.remainder + 1]>>

DecimalString(bytes) == IF IsZero(bytes) THEN <<"0">> ELSE DigitsOf(bytes)

\* buffer.readBigUInt64BE(offset).toString(): the eight bytes at offset
ReadBigUInt64BE(buffer, offset) == DecimalString(Slice(buffer, offset, offset + 8))

\* result[key] = value
SetKey(result, key, value) ==
    [k \in (DOMAIN result) \cup {key} |-> IF k = key THEN value ELSE result[k]]

\* a walk that steps over a type byte it does not know and goes on with the next field
RECURSIVE ParseFieldsSkippingUnknown(_, _, _)
ParseFieldsSkippingUnknown(buffer, offset, result) ==
    IF ~(offset < Len(buffer) - 1) THEN result
    ELSE LET keyLen == ReadUInt16BE(buffer, offset)
             keyAt == offset + 2
             typeAt == keyAt + keyLen
             at == typeAt + 1
         IN  IF keyAt + keyLen > Len(buffer) \/ typeAt >= Len(buffer) THEN result
             ELSE LET key == Utf8(Slice(buffer, keyAt, typeAt))
                      valueType == buffer[typeAt + 1]
                  IN  IF valueType \in {0, 1}
                      THEN IF at + 16 > Len(buffer) THEN result
                           ELSE ParseFieldsSkippingUnknown(buffer, at + 16,
                                    SetKey(result, key, ReadBigUInt64BE(buffer, at)))
                      ELSE IF valueType \in {6, 7}
                      THEN IF at + 2 > Len(buffer) THEN result
                           ELSE IF at + 2 + ReadUInt16BE(buffer, at) > Len(buffer) THEN result
                           ELSE ParseFieldsSkippingUnknown(buffer,
                                    at + 2 + ReadUInt16BE(buffer, at),
                                    SetKey(result, key,
                                        Utf8(Slice(buffer, at + 2,
                                                   at + 2 + ReadUInt16BE(buffer, at)))))
                      ELSE IF valueType = 9
                      THEN IF at + 21 > Len(buffer) THEN result
                           ELSE ParseFieldsSkippingUnknown(buffer, at + 21,
                                    SetKey(result, key,
                                        <<"0", "x">> \o ToHex(Slice(buffer, at, at + 21))))
                      ELSE ParseFieldsSkippingUnknown(buffer, at, result)

(* The while loop of parseClarityTuple from a given offset: key length,     *)
(* key, type byte, value; every read is guarded and a guard that fails, or  *)
(* an unknown type byte, breaks out with the result built so far.  Keys     *)
(* are strings like every other text.                                       *)
RECURSIVE ParseFields(_, _, _)
ParseFields(buffer, offset, result) ==
    IF ~(offset < Len(buffer) - 1) THEN result
    ELSE LET keyLen == ReadUInt16BE(buffer, offset)
             keyAt == offset + 2
             typeAt == keyAt + keyLen
             at == typeAt + 1
         IN  IF keyAt + keyLen > Len(buffer) \/ typeAt >= Len(buffer) THEN result
             ELSE LET key == Utf8(Slice(buffer, keyAt, typeAt))
                      valueType == buffer[typeAt + 1]
                  IN  IF valueType \in {0, 1}
                      THEN IF at + 16 > Len(buffer) THEN result
                           ELSE ParseFields(buffer, at + 16,
                                    SetKey(result, key, ReadBigUInt64BE(buffer, at)))
                      ELSE IF valueType \in {6, 7}
                      THEN IF at + 2 > Len(buffer) THEN result
                           ELSE IF at + 2 + ReadUInt16BE(buffer, at) > Len(buffer) THEN result
                           ELSE ParseFields(buffer, at + 2 + ReadUInt16BE(buffer, at),
                                    SetKey(result, key,
                                        Utf8(Slice(buffer, at + 2,
                                                   at + 2 + ReadUInt16BE(buffer, at)))))
                      ELSE IF valueType = 9
                      THEN IF at + 21 > Len(buffer) THEN result
                           ELSE ParseFields(buffer, at + 21,
                                    SetKey(result, key,
                                        <<"0", "x">> \o ToHex(Slice(buffer, at, at + 21))))
                      ELSE result

\* what a call returns: a JSON value (its text), or an object (key -> string)
JsonValue(text) == [kind |-> "json", text |-> text]
Object(fields) == [kind |-> "object", fields |-> fields]

\* the walk starts behind the type byte and two length bytes
ParseClarityTuple(buffer) == Object(ParseFields(buffer, 3, << >>))

TupleMarker == 12

(* Does JSON.parse accept the text?  Decided for texts over the bytes the   *)
(* model feeds it: the digit 1, braces, the double quote, the space, the    *)
(* letter z and the form feed (which JSON does not count as white space).   *)
RECURSIVE TrimSpaces(_)
TrimSpaces(bytes) ==
    IF bytes # << >> /\ Head(bytes) = 32 THEN TrimSpaces(Tail(bytes))
    ELSE IF bytes # << >> /\ bytes[Len(bytes)] = 32
         THEN TrimSpaces(SubSeq(bytes, 1, Len(bytes) - 1))
         ELSE bytes

IsJsonText(bytes) ==
    LET t == TrimSpaces(bytes)
        n == Len(t)
    IN  \/ n >= 1 /\ \A i \in 1..n : t[i] = 49
        \/ n >= 2 /\ t[1] = 123 /\ t[n] = 125 /\ \A i \in 2..(n - 1) : t[i] = 32
        \/ n >= 2 /\ t[1] = 34 /\ t[n] = 34 /\ \A i \in 2..(n - 1) : t[i] >= 32 /\ t[i] \notin {34, 92}

RawKey == <<"r", "a", "w">>

StartsWith0x(chars) == Len(chars) >= 2 /\ chars[1] = "0" /\ chars[2] = "x"

\* a decoder whose fallback returns the string without its 0x prefix
DecodeClarityValueRawStripped(value) ==
    LET hex == IF StartsWith0x(value) THEN SubSeq(value, 3, Len(value)) ELSE value
        buffer == HexDecode(hex)
    IN  IF IsJsonText(buffer) THEN JsonValue(Utf8(buffer))
        ELSE IF Len(buffer) > 0 /\ buffer[1] = TupleMarker THEN ParseClarityTuple(buffer)
        ELSE Object([k \in {RawKey} |-> hex])

DecodeClarityValue(value) ==
    LET hex == IF StartsWith0x(value) THEN SubSeq(value, 3, Len(value)) ELSE value
        buffer == HexDecode(hex)
    IN  IF IsJsonText(buffer) THEN JsonValue(Utf8(buffer))
        ELSE IF Len(buffer) > 0 /\ buffer[1] = TupleMarker THEN ParseClarityTuple(buffer)
        ELSE Object([k \in {RawKey} |-> value])

-----------------------------------------------------------------------------
(* The values the decoder runs decode.  A tuple input is the encoding of a  *)
(* list of fields, cut after any number of bytes; a text input is a short   *)
(* byte string, in hex, with or without the 0x prefix; the others are       *)
(* strings that are not hex all through.                                    *)

Field(key, type, value) == [key |-> key, type |-> type, value |-> value]

UInt16BE(n) == <<n \div 256, n % 256>>

EncodeField(f) == UInt16BE(Len(f.key)) \o f.key \o <<f.type>> \o f.value

\* key "a": an unsigned integer, sixteen bytes
UIntField == Field(<<97>>, 1, <<0, 0, 0, 0, 0, 0, 0, 1, 0, 0, 0, 0, 0, 0, 0, 42>>)
\* key "id": a string, "ab" behind its two length bytes
StringField == Field(<<105, 100>>, 6, UInt16BE(2) \o <<97, 98>>)
\* key "p": a principal, twenty-one bytes
PrincipalField == Field(<<112>>, 9, <<22>> \o [i \in 1..20 |-> i])
\* key "x": a value of a type the parser does not know (a boolean)
BoolField == Field(<<120>>, 3, << >>)

TupleFields == {UIntField, StringField, PrincipalField, BoolField}

RECURSIVE ListsUpTo(_, _)
ListsUpTo(S, n) ==
    IF n = 0 THEN {<< >>}
    ELSE LET shorter == ListsUpTo(S, n - 1)
         IN  shorter \cup {Append(l, x) : l \in {m \in shorter : Len(m) = n - 1}, x \in S}

\* type byte 0x0c, two length bytes, the fields
EncodeTuple(fields) ==
    <<TupleMarker, 0, Len(fields)>>
        \o Flatten([i \in 1..Len(fields) |-> EncodeField(fields[i])])

TextBytes == {49, 123, 125, 34, 32, 122, TupleMarker}

DecodeEnv(kind, chars, fields, cut) ==
    [kind |-> kind, chars |-> chars, fields |-> fields, cut |-> cut]

TupleEnvs ==
    {DecodeEnv("tuple", <<"0", "x">> \o ToHex(SubSeq(EncodeTuple(fs), 1, n)), fs, n) :
        <<fs, n>> \in {<<fs, n>> \in ListsUpTo(TupleFields, MaxFields) \X (0..100) :
                          n <= Len(EncodeTuple(fs))}}

TextEnvs ==
    {DecodeEnv("text", prefix \o ToHex(bytes), << >>, Len(bytes)) :
        prefix \in {<< >>, <<"0", "x">>}, bytes \in ListsUpTo(TextBytes, MaxTextBytes)}

(* Tuples as values, for the round trip: a field is a key (its ASCII codes), *)
(* a type byte and either a number or the ASCII codes of a string.          *)
UIntValue(key, n) == [key |-> key, type |-> 1, value |-> <<n>>]
AsciiValue(key, text) == [key |-> key, type |-> 6, value |-> text]

\* the sixteen big-endian bytes of a number below 2^31
UInt128BE(n) == [i \in 1..16 |-> IF i <= 12 THEN 0 ELSE (n \div (256 ^ (16 - i))) % 256]

EncodeValue(v) ==
    Field(v.key, v.type,
          IF v.type = 1 THEN UInt128BE(v.value[1])
          ELSE UInt16BE(Len(v.value)) \o v.value)

\* field1 = 42, field2 = "pulse", n = 0, m = 300
Field1 == UIntValue(<<102, 105, 101, 108, 100, 49>>, 42)
Field2 == AsciiValue(<<102, 105, 101, 108, 100, 50>>, <<112, 117, 108, 115, 101>>)
FieldN == UIntValue(<<110>>, 0)
FieldM == UIntValue(<<109>>, 300)

RoundTripTuples ==
    {t \in ListsUpTo({Field1, Field2, FieldN, FieldM}, MaxFields) :
        \A i, j \in 1..Len(t) : i # j => t[i].key # t[j].key}

EncodeValues(t) == EncodeTuple([i \in 1..Len(t) |-> EncodeValue(t[i])])

RoundTripEnvs ==
    {DecodeEnv("roundtrip", <<"0", "x">> \o ToHex(EncodeValues(t)), t, Len(EncodeValues(t))) :
        t \in RoundTripTuples}

\* the decimal digits of a natural number
RECURSIVE Decimal(_)
Decimal(n) ==
    IF n < 10 THEN <<DecimalDigits[n + 1]>>
    ELSE Decimal(n \div 10) \o <<DecimalDigits[(n % 10) + 1]>>

-----------------------------------------------------------------------------
(* Values in the decoder runs.  The decoder returns every integer as a      *)
(* string, so what handlePulseEvent and updateLeaderboard add and compare   *)
(* there are JavaScript values: a number or a string.  a + b adds two       *)
(* numbers and otherwise joins the two as strings; a > b and a >= b compare *)
(* two strings as strings and otherwise as numbers.  The strings met are    *)
(* strings of decimal digits.                                               *)

JsNumber(n) == [type |-> "number", number |-> n, string |-> << >>]
JsString(s) == [type |-> "string", number |-> 0, string |-> s]

ToStringJs(v) == IF v.type = "number" THEN Decimal(v.number) ELSE v.string

RECURSIVE DigitsToNumber(_, _)
DigitsToNumber(chars, n) ==
    IF chars = << >> THEN n
    ELSE DigitsToNumber(Tail(chars),
             n * 10 + (CHOOSE d \in 0..9 : DecimalDigits[d + 1] = Head(chars)))

ToNumberJs(v) == IF v.type = "number" THEN v.number ELSE DigitsToNumber(v.string, 0)

\* a += b
JsPlus(a, b) ==
    IF a.type = "number" /\ b.type = "number" THEN JsNumber(a.number + b.number)
    ELSE JsString(ToStringJs(a) \o ToStringJs(b))

\* s > t for two strings of digits: by the first character that differs, then by length
RECURSIVE StringGreater(_, _)
StringGreater(s, t) ==
    IF s = << >> THEN FALSE
    ELSE IF t = << >> THEN TRUE
    ELSE IF Head(s) = Head(t) THEN StringGreater(Tail(s), Tail(t))
    ELSE DigitsToNumber(<<Head(s)>>, 0) > DigitsToNumber(<<Head(t)>>, 0)

\* a > b
JsGreater(a, b) ==
    IF a.type = "string" /\ b.type = "string" THEN StringGreater(a.string, b.string)
    ELSE ToNumberJs(a) > ToNumberJs(b)

\* updateLeaderboard on such values
UpdateLeaderboardOnValues(lb, user, points, pulses, streak) ==
    LET e0 == IF user \in DOMAIN lb THEN lb[user]
              ELSE [user |-> user, totalPoints |-> JsNumber(0), totalPulses |-> JsNumber(0),
                    currentStreak |-> JsNumber(0), longestStreak |-> JsNumber(0),
                    tier |-> "none"]
        e1 == [e0 EXCEPT !.totalPoints = JsPlus(@, points), !.totalPulses = JsPlus(@, pulses)]
        e2 == IF JsGreater(streak, JsNumber(0))
              THEN [e1 EXCEPT !.currentStreak = streak,
                              !.longestStreak = IF JsGreater(streak, @) THEN streak ELSE @]
              ELSE e1
        e3 == [e2 EXCEPT !.tier = TierUpdate(ToNumberJs(e2.totalPoints), @)]
    IN  [u \in (DOMAIN lb) \cup {user} |-> IF u = user THEN e3 ELSE lb[u]]

\* handlePulseEvent for an event whose user, points, fee and streak are such values
HandlePulseEventOnValues(st, event, txHash, h) ==
    LET act == Activity("-pulse", event.user, "pulse", event.points, event.fee, h, txHash,
                        Meta(event.streak, 0, ""))
        lb == UpdateLeaderboardOnValues(st.leaderboard, event.user, event.points,
                                        JsNumber(1), event.streak)
        now == Written(Append(st.activities, act), lb, JsPlus(st.totalFees, event.fee))
    IN  Result(now.activities, now.leaderboard, now.totalFees,
               <<Emit("leaderboard-update", event.user, now), Emit("pulse", event.user, now)>>,
               FALSE)

\* the keys handlePulseEvent reads, and the tag of a pulse
EventKey == <<"e", "v", "e", "n", "t">>
UserKey == <<"u", "s", "e", "r">>
PointsKey == <<"p", "o", "i", "n", "t", "s">>
FeeKey == <<"f", "e", "e">>
StreakKey == <<"s", "t", "r", "e", "a", "k">>
PulseSentTag == <<"p", "u", "l", "s", "e", "-", "s", "e", "n", "t">>

(* A print of the contract in the operations format: the tuple {event,      *)
(* user, points, fee, streak}, the integers unsigned and below 2^31.        *)
PrincipalValue(key, bytes) == [key |-> key, type |-> 9, value |-> bytes]

EncodeOperationValue(v) == IF v.type = 9 THEN Field(v.key, 9, v.value) ELSE EncodeValue(v)

PrintTuple(tag, points, fee, streak) ==
    <<AsciiValue(<<101, 118, 101, 110, 116>>, tag),
      PrincipalValue(<<117, 115, 101, 114>>, <<22>> \o [i \in 1..20 |-> i]),
      UIntValue(<<112, 111, 105, 110, 116, 115>>, points),
      UIntValue(<<102, 101, 101>>, fee),
      UIntValue(<<115, 116, 114, 101, 97, 107>>, streak)>>

\* pulse-sent with 60 and with 150 points, and a print with another tag
PrintTuples ==
    {PrintTuple(<<112, 117, 108, 115, 101, 45, 115, 101, 110, 116>>, 60, 3, 2),
     PrintTuple(<<112, 117, 108, 115, 101, 45, 115, 101, 110, 116>>, 150, 3, 0),
     PrintTuple(<<112, 105, 110, 103>>, 60, 3, 2)}

OperationEnvs ==
    {LET bytes == EncodeTuple([i \in 1..Len(t) |-> EncodeOperationValue(t[i])])
     IN  DecodeEnv("operation", <<"0", "x">> \o ToHex(bytes), t, Len(bytes)) :
        t \in PrintTuples}

OtherEnvs ==
    {DecodeEnv("other", chars, << >>, 0) :
        chars \in {<<"z", "z">>, <<"7", "a", "7">>, <<"0", "x", "7", "a", "z", "z">>,
                   <<"0", "x", "7", "b", "7">>, <<"3", "1", "g", "0">>}}

DecodeInit ==
    /\ activities = << >>
    /\ leaderboard = << >>
    /\ totalFees = JsNumber(0)
    /\ totalTransactions = 0
    /\ listeners = ServerListeners
    /\ env \in TupleEnvs \cup TextEnvs \cup OtherEnvs \cup RoundTripEnvs \cup OperationEnvs
    /\ env.chars # << >>
    /\ calls = << >>
    /\ draining = FALSE
    /\ units = 0
    /\ last = Unit("init", 0, NoEvent, "", 0, << >>)
    /\ emitted = << >>
    /\ hexValue = env.chars
    /\ decoded = Pending
    /\ NoQuery
    /\ NoRequest
    /\ NoScript
    /\ NoContract

\* processTransaction calls this.decodeClarityValue(hexValue) for a value that is not empty
Decode ==
    /\ decoded = Pending
    /\ hexValue # << >>
    /\ decoded' = DecodeClarityValue(hexValue)
    /\ UNCHANGED <<activities, leaderboard, totalFees, totalTransactions, listeners, env,
                   calls, draining, units, last, emitted, hexValue, querying, serving,
                   registering, contract>>

(* processTransaction for a transaction 0xaa of the block at height 100     *)
(* whose operations are one contract_log operation with topic print and the *)
(* value hexValue: the value is decoded, pushed as the data of a            *)
(* print_event and handed to processPrintEvent, whose switch calls          *)
(* handlePulseEvent for the tag pulse-sent and nothing for an unknown tag.  *)
ProcessOperation ==
    /\ env.kind = "operation"
    /\ units < MaxUnits
    /\ decoded' = DecodeClarityValue(hexValue)
    /\ LET data == decoded'.fields
       IN  IF data[EventKey] = PulseSentTag
           THEN Apply(HandlePulseEventOnValues(Store,
                          [user |-> data[UserKey], points |-> JsString(data[PointsKey]),
                           fee |-> JsString(data[FeeKey]),
                           streak |-> JsString(data[StreakKey])],
                          "0xaa", 100))
           ELSE UNCHANGED <<activities, leaderboard, totalFees, emitted>>
    /\ units' = units + 1
    /\ last' = Unit("operation", 0, NoEvent, "0xaa", 100, << >>)
    /\ UNCHANGED <<totalTransactions, listeners, env, calls, draining, hexValue, querying,
                   serving, registering, contract>>

DecodeNext ==
    \/ Decode
    \/ ProcessOperation

DecodeSpec == DecodeInit /\ [][DecodeNext]_vars

-----------------------------------------------------------------------------
(* getActivities and getUserActivities.  The queries read the ledger and    *)
(* change nothing; QuerySpec starts from the store that a list of           *)
(* deliveries of one event each leaves behind and asks with every limit.    *)

MaxRecords == 3
MaxLimit == 3

\* array.slice(start): a negative start counts back from the end, -0 is 0
ArraySlice(array, start) ==
    LET len == Len(array)
        k == IF start < 0 THEN (IF len + start > 0 THEN len + start ELSE 0)
             ELSE (IF start < len THEN start ELSE len)
    IN  SubSeq(array, k + 1, len)

\* array.reverse()
Reverse(array) == [i \in 1..Len(array) |-> array[Len(array) + 1 - i]]

GetActivities(acts, limit) == Reverse(ArraySlice(acts, 0 - limit))

GetUserActivities(acts, user, limit) ==
    Reverse(ArraySlice(SelectSeq(acts, LAMBDA a : a.user = user), 0 - limit))

Reply(op, user, limit, result) ==
    [op |-> op, user |-> user, limit |-> limit, result |-> result]

\* the deliveries behind a ledger: one pulse of either user in either transaction
QueryDeliveries == PulseEvents \X {<<"0xaa", 100>>, <<"0xbb", 101>>}

\* the store after the deliveries, each handled to its end before the next
RECURSIVE Replay(_, _)
Replay(st, deliveries) ==
    IF deliveries = << >> THEN st
    ELSE LET d == Head(deliveries)
             r == ProcessEvent(st, d[1], d[2][1], d[2][2])
         IN  Replay([activities |-> r.activities, leaderboard |-> r.leaderboard,
                     totalFees |-> r.totalFees],
                    Tail(deliveries))

QueryInit ==
    /\ listeners = ServerListeners
    /\ env \in {[deliveries |-> ds] : ds \in ListsUpTo(QueryDeliveries, MaxRecords)}
    /\ LET st == Replay([activities |-> << >>, leaderboard |-> << >>, totalFees |-> 0],
                        env.deliveries)
       IN  /\ activities = st.activities
           /\ leaderboard = st.leaderboard
           /\ totalFees = st.totalFees
    /\ totalTransactions = Len(env.deliveries)
    /\ calls = [d \in 1..Len(env.deliveries) |-> Frame("resolved", "", 0, 0, TRUE)]
    /\ draining = FALSE
    /\ units = Len(env.deliveries)
    /\ last = Unit(IF env.deliveries = << >> THEN "init" ELSE "finish",
                   Len(env.deliveries), NoEvent, "", 0, << >>)
    /\ emitted = << >>
    /\ hexValue = << >>
    /\ decoded = Pending
    /\ NoQuery
    /\ NoRequest
    /\ NoScript
    /\ NoContract

\* GET /api/activities?limit=n
CallGetActivities(limit) ==
    /\ reply' = Reply("getActivities", "", limit, GetActivities(activities, limit))
    /\ UNCHANGED <<activities, leaderboard, totalFees, totalTransactions, listeners, env,
                   calls, draining, units, last, emitted, decoding, serving, registering, contract>>

\* GET /api/users/:address/activities?limit=n
CallGetUserActivities(user, limit) ==
    /\ reply' = Reply("getUserActivities", user, limit,
                      GetUserActivities(activities, user, limit))
    /\ UNCHANGED <<activities, leaderboard, totalFees, totalTransactions, listeners, env,
                   calls, draining, units, last, emitted, decoding, serving, registering, contract>>

QueryNext ==
    \/ \E limit \in 0..MaxLimit : CallGetActivities(limit)
    \/ \E user \in Users, limit \in 0..MaxLimit : CallGetUserActivities(user, limit)

QuerySpec == QueryInit /\ [][QueryNext]_vars

-----------------------------------------------------------------------------
(* The registration script (scripts/register-chainhooks) and the part of    *)
(* ChainhooksService it calls.  The remote API keeps the chainhooks of the  *)
(* account; a hook is its uuid and the name of its definition ("" when it   *)
(* has none).  Every API call is awaited; the script is the only client of  *)
(* the account while it runs, and any call may fail, which ends the run.    *)

MaxHooks == 3
MaxRuns == 2

PageSize == 60
MaxPages == 20

\* the order of registerAllHooks
RegistrationOrder ==
    <<"ChainPulse-PulseSent", "ChainPulse-Boost", "ChainPulse-Checkin",
      "ChainPulse-MegaPulse", "ChainPulse-Challenge", "ChainPulse-Reward",
      "ChainPulse-Tier", "ChainPulse-Badge", "ChainPulse-STXTransfer">>

desiredHookNames == {RegistrationOrder[i] : i \in 1..Len(RegistrationOrder)}

Hook(uuid, name) == [uuid |-> uuid, name |-> name]

\* client.getChainhooks({limit, offset}).results
GetChainhooks(remote, limit, offset) ==
    SubSeq(remote, offset + 1,
           IF offset + limit < Len(remote) THEN offset + limit ELSE Len(remote))

\* the paging loop: pages of 60 until a short page, twenty pages at most
RECURSIVE AllPages(_, _, _)
AllPages(remote, offset, i) ==
    IF i >= MaxPages THEN << >>
    ELSE LET results == GetChainhooks(remote, PageSize, offset)
         IN  results \o (IF Len(results) < PageSize THEN << >>
                         ELSE AllPages(remote, offset + Len(results), i + 1))

\* the first listed hook of that name, as a sequence of at most one hook
FindExistingByDisplayName(remote, displayName) ==
    LET all == AllPages(remote, 0, 0)
        found == SelectSeq(all, LAMBDA h : h.name = displayName)
    IN  IF found = << >> THEN << >> ELSE <<Head(found)>>

\* the keys of the groups map, in the order they were set
RECURSIVE GroupNames(_, _)
GroupNames(all, seen) ==
    IF all = << >> THEN << >>
    ELSE LET name == Head(all).name
         IN  IF name = "" \/ name \notin desiredHookNames \/ name \in seen
             THEN GroupNames(Tail(all), seen)
             ELSE <<name>> \o GroupNames(Tail(all), seen \cup {name})

\* the hooks deleteDuplicateHooks deletes, in order: all but the first of every group
Duplicates(remote) ==
    LET all == AllPages(remote, 0, 0)
        names == GroupNames(all, {})
    IN  Flatten([i \in 1..Len(names) |->
                    Tail(SelectSeq(all, LAMBDA h : h.name = names[i]))])

Script(phase, dupes, todo, runs) ==
    [phase |-> phase, dupes |-> dupes, todo |-> todo, runs |-> runs]

\* the hooks an account may hold before the script is first run
InitialNames == {"ChainPulse-PulseSent", "ChainPulse-STXTransfer", "Other-Hook", ""}

Remote(names) == [i \in 1..Len(names) |-> Hook(i, names[i])]

HookInit ==
    /\ activities = << >>
    /\ leaderboard = << >>
    /\ totalFees = 0
    /\ totalTransactions = 0
    /\ listeners = ServerListeners
    /\ env \in {[hooks |-> Remote(names)] : names \in ListsUpTo(InitialNames, MaxHooks)}
    /\ calls = << >>
    /\ draining = FALSE
    /\ units = 0
    /\ last = Unit("init", 0, NoEvent, "", 0, << >>)
    /\ emitted = << >>
    /\ hexValue = << >>
    /\ decoded = Pending
    /\ NoQuery
    /\ NoRequest
    /\ hooks = env.hooks
    /\ issued = Len(env.hooks)
    /\ script = Idle
    /\ NoContract

handling ==
    <<activities, leaderboard, totalFees, totalTransactions, listeners, env, calls,
      draining, units, last, emitted, decoding, querying, serving, contract>>

(* main up to the end of the listing in deleteDuplicateHooks: checkStatus,  *)
(* the pages, the groups.                                                   *)
StartScript ==
    /\ script.phase \in {"idle", "done", "failed"}
    /\ script.runs < MaxRuns
    /\ LET dupes == Duplicates(hooks)
       IN  script' = Script(IF dupes = << >> THEN "registering" ELSE "deleting",
                            dupes, RegistrationOrder, script.runs + 1)
    /\ UNCHANGED <<handling, hooks, issued>>

\* await this.deleteChainhook(h.uuid) for the next duplicate
DeleteChainhook ==
    /\ script.phase = "deleting"
    /\ hooks' = SelectSeq(hooks, LAMBDA h : h.uuid # Head(script.dupes).uuid)
    /\ script' = Script(IF Tail(script.dupes) = << >> THEN "registering" ELSE "deleting",
                        Tail(script.dupes), script.todo, script.runs)
    /\ UNCHANGED <<handling, issued>>

\* a registration that does not look for a hook of that name first
RegisterWithoutLookup(remote, displayName) ==
    Append(remote, Hook(issued + 1, displayName))

\* the remote store after registerHook / registerStxTransferHook for a name
Register(remote, displayName) ==
    IF FindExistingByDisplayName(remote, displayName) # << >> THEN remote
    ELSE Append(remote, Hook(issued + 1, displayName))

Registered(displayName) ==
    /\ hooks' = Register(hooks, displayName)
    /\ issued' = IF Len(hooks') > Len(hooks) THEN issued + 1 ELSE issued
    /\ script' = Script(IF Tail(script.todo) = << >> THEN "done" ELSE "registering",
                        << >>, Tail(script.todo), script.runs)
    /\ UNCHANGED handling

\* one of the eight registerHook calls of registerAllHooks
RegisterHook ==
    /\ script.phase = "registering"
    /\ Head(script.todo) # "ChainPulse-STXTransfer"
    /\ Registered(Head(script.todo))

RegisterStxTransferHook ==
    /\ script.phase = "registering"
    /\ Head(script.todo) = "ChainPulse-STXTransfer"
    /\ Registered("ChainPulse-STXTransfer")

\* an API call is rejected: main catches the error and exits
ApiCallFails ==
    /\ script.phase \in {"deleting", "registering"}
    /\ script' = Script("failed", << >>, << >>, script.runs)
    /\ UNCHANGED <<handling, hooks, issued>>

HookNext ==
    \/ StartScript
    \/ DeleteChainhook
    \/ RegisterHook
    \/ RegisterStxTransferHook
    \/ ApiCallFails

HookSpec == HookInit /\ [][HookNext]_vars

-----------------------------------------------------------------------------
(* The Clarity contracts.                                                   *)
(*                                                                          *)
(* contract.data holds the data variables and maps of the contract of the   *)
(* run and the burn block height; contract.call and contract.response are   *)
(* the public function called last and what it returned.  A public function *)
(* is an operator from the data to the data after the call and the          *)
(* response: where the code returns (err ..) the data is the data before    *)
(* the call, as the chain rolls the transaction back.  Calls run at burn    *)
(* block heights from 1 on.                                                 *)

MaxHeight == 8

offchain ==
    <<activities, leaderboard, totalFees, totalTransactions, listeners, env, calls,
      draining, units, last, emitted, decoding, querying, serving, registering>>

Offchain ==
    /\ activities = << >>
    /\ leaderboard = << >>
    /\ totalFees = 0
    /\ totalTransactions = 0
    /\ listeners = ServerListeners
    /\ env = [kind |-> "contract"]
    /\ calls = << >>
    /\ draining = FALSE
    /\ units = 0
    /\ last = Unit("init", 0, NoEvent, "", 0, << >>)
    /\ emitted = << >>
    /\ hexValue = << >>
    /\ decoded = Pending
    /\ NoQuery
    /\ NoRequest
    /\ NoScript

Ok(value) == [ok |-> TRUE, code |-> 0, value |-> value]
Err(code) == [ok |-> FALSE, code |-> code, value |-> 0]

Returned(data, response) == [data |-> data, response |-> response]

Call(fn, args) == [fn |-> fn, args |-> args]

Deployed(name, data) ==
    [name |-> name, data |-> data, call |-> Call("deploy", << >>), response |-> Ok(TRUE),
     minted |-> << >>]

\* the principal that deployed the contracts
CONTRACT_OWNER == "SP1"

\* a burn block is mined between two calls
MineBlock ==
    /\ contract.name # "none"
    /\ contract.data.height < MaxHeight
    /\ contract' = [contract EXCEPT !.data.height = @ + 1,
                                    !.call = Call("block", << >>),
                                    !.response = Ok(TRUE)]
    /\ UNCHANGED offchain

(* pulse-badge-nft *)

ERR_UNAUTHORIZED    == 300
ERR_ALREADY_MINTED  == 302
ERR_TRANSFER_FAILED == 303

BADGE_FIRST_PULSE == 1
BADGE_STREAK_WEEK == 2

BadgeTypes == {BADGE_FIRST_PULSE, BADGE_STREAK_WEEK}

\* the data of pulse-badge-nft after deployment
BadgeData ==
    [height        |-> 1,
     lastTokenId   |-> 0,
     pulseBadge    |-> << >>,    \* the NFT: token id -> owner
     badgeMetadata |-> << >>,    \* token id -> metadata
     userBadges    |-> << >>,    \* <<user, badge type>> -> token id and block
     badgeTypes    |-> << >>]    \* badge type -> name and total-minted

\* mint-badge without the look-up in user-badges
MintBadgeMintingAgain(c, badgeType, recipient, milestoneValue) ==
    LET tokenId  == c.lastTokenId + 1
        badgeKey == <<recipient, badgeType>>
    IN  IF tokenId \in DOMAIN c.pulseBadge THEN Returned(c, Err(1))
        ELSE Returned(
               [c EXCEPT
                  !.pulseBadge = SetKey(@, tokenId, recipient),
                  !.badgeMetadata = SetKey(@, tokenId,
                      [badgeType |-> badgeType, mintedTo |-> recipient,
                       mintedAt |-> c.height, milestoneValue |-> milestoneValue]),
                  !.userBadges = SetKey(@, badgeKey,
                      [tokenId |-> tokenId, mintedAt |-> c.height]),
                  !.badgeTypes = IF badgeType \in DOMAIN @
                                 THEN [@ EXCEPT ![badgeType].totalMinted = @ + 1]
                                 ELSE @,
                  !.lastTokenId = tokenId],
               Ok(tokenId))

MintBadge(c, badgeType, recipient, milestoneValue) ==
    LET tokenId  == c.lastTokenId + 1
        badgeKey == <<recipient, badgeType>>
    IN  IF badgeKey \in DOMAIN c.userBadges THEN Returned(c, Err(ERR_ALREADY_MINTED))
        \* nft-mint? answers (err u1) for a token id that exists
        ELSE IF tokenId \in DOMAIN c.pulseBadge THEN Returned(c, Err(1))
        ELSE Returned(
               [c EXCEPT
                  !.pulseBadge = SetKey(@, tokenId, recipient),
                  !.badgeMetadata = SetKey(@, tokenId,
                      [badgeType |-> badgeType, mintedTo |-> recipient,
                       mintedAt |-> c.height, milestoneValue |-> milestoneValue]),
                  !.userBadges = SetKey(@, badgeKey,
                      [tokenId |-> tokenId, mintedAt |-> c.height]),
                  !.badgeTypes = IF badgeType \in DOMAIN @
                                 THEN [@ EXCEPT ![badgeType].totalMinted = @ + 1]
                                 ELSE @,
                  !.lastTokenId = tokenId],
               Ok(tokenId))

MintFirstPulseBadge(c, txSender) == MintBadge(c, BADGE_FIRST_PULSE, txSender, 1)

\* nft-transfer? fails for an unknown token, a sender that does not own it, or
\* a transfer to oneself
Transfer(c, txSender, tokenId, sender, recipient) ==
    IF txSender # sender THEN Returned(c, Err(ERR_UNAUTHORIZED))
    ELSE IF tokenId \notin DOMAIN c.pulseBadge THEN Returned(c, Err(ERR_TRANSFER_FAILED))
    ELSE IF c.pulseBadge[tokenId] # sender \/ sender = recipient
         THEN Returned(c, Err(ERR_TRANSFER_FAILED))
    ELSE Returned([c EXCEPT !.pulseBadge[tokenId] = recipient], Ok(TRUE))

InitializeBadgeType(c, txSender, badgeType, name) ==
    IF txSender # CONTRACT_OWNER THEN Returned(c, Err(ERR_UNAUTHORIZED))
    ELSE Returned([c EXCEPT !.badgeTypes =
                       SetKey(@, badgeType, [name |-> name, totalMinted |-> 0])],
                  Ok(badgeType))

\* the successful mints of the run, in order: what the properties speak about
Minting(minted, badgeType, recipient, ret) ==
    IF ret.response.ok
    THEN Append(minted, [badgeType |-> badgeType, recipient |-> recipient,
                         tokenId |-> ret.response.value])
    ELSE minted

\* the calls of a run are made within one burn block: the contract stores the
\* height in minted-at and no public function reads it
BadgeInit ==
    /\ Offchain
    /\ contract = Deployed("pulse-badge-nft", BadgeData)

CallMintBadge(badgeType, recipient, milestoneValue) ==
    /\ contract.name = "pulse-badge-nft"
    /\ LET ret == MintBadge(contract.data, badgeType, recipient, milestoneValue)
       IN  contract' = [contract EXCEPT
                          !.data = ret.data,
                          !.call = Call("mint-badge", <<badgeType, recipient>>),
                          !.response = ret.response,
                          !.minted = Minting(@, badgeType, recipient, ret)]
    /\ UNCHANGED offchain

CallMintFirstPulseBadge(txSender) ==
    /\ contract.name = "pulse-badge-nft"
    /\ LET ret == MintFirstPulseBadge(contract.data, txSender)
       IN  contract' = [contract EXCEPT
                          !.data = ret.data,
                          !.call = Call("mint-badge", <<BADGE_FIRST_PULSE, txSender>>),
                          !.response = ret.response,
                          !.minted = Minting(@, BADGE_FIRST_PULSE, txSender, ret)]
    /\ UNCHANGED offchain

CallTransfer(txSender, tokenId, sender, recipient) ==
    /\ contract.name = "pulse-badge-nft"
    /\ LET ret == Transfer(contract.data, txSender, tokenId, sender, recipient)
       IN  contract' = [contract EXCEPT
                          !.data = ret.data,
                          !.call = Call("transfer", << >>),
                          !.response = ret.response]
    /\ UNCHANGED offchain

CallInitializeBadgeType(txSender, badgeType) ==
    /\ contract.name = "pulse-badge-nft"
    /\ LET ret == InitializeBadgeType(contract.data, txSender, badgeType, "badge")
       IN  contract' = [contract EXCEPT
                          !.data = ret.data,
                          !.call = Call("initialize-badge-type", << >>),
                          !.response = ret.response]
    /\ UNCHANGED offchain

BadgeNext ==
    \/ \E badgeType \in BadgeTypes, recipient \in Users, milestoneValue \in {1} :
           CallMintBadge(badgeType, recipient, milestoneValue)
    \/ \E txSender \in Users : CallMintFirstPulseBadge(txSender)
    \/ \E txSender \in Users, tokenId \in 1..(contract.data.lastTokenId + 1),
          sender \in Users, recipient \in Users :
           CallTransfer(txSender, tokenId, sender, recipient)
    \/ \E txSender \in Users, badgeType \in BadgeTypes :
           CallInitializeBadgeType(txSender, badgeType)

BadgeSpec == BadgeInit /\ [][BadgeNext]_vars

(* pulse-rewards *)

TIER_BRONZE   == 100
TIER_SILVER   == 500
TIER_GOLD     == 1000
TIER_PLATINUM == 5000

\* the data of pulse-rewards after deployment
RewardsData ==
    [height      |-> 1,
     userRewards |-> << >>]    \* principal -> points, claims, tier and its block

GetUserRewardsOrDefault(c, user) ==
    IF user \in DOMAIN c.userRewards THEN c.userRewards[user]
    ELSE [pointsRedeemed |-> 0, rewardsClaimed |-> 0, currentTier |-> "none",
          tierAchievedBlock |-> 0]

CalculateTier(totalPoints) ==
    IF totalPoints >= TIER_PLATINUM THEN "platinum"
    ELSE IF totalPoints >= TIER_GOLD THEN "gold"
    ELSE IF totalPoints >= TIER_SILVER THEN "silver"
    ELSE IF totalPoints >= TIER_BRONZE THEN "bronze"
    ELSE "none"

AchieveTier(c, txSender, totalPoints) ==
    LET user        == txSender
        userData    == GetUserRewardsOrDefault(c, user)
        newTier     == CalculateTier(totalPoints)
    IN  Returned(
          [c EXCEPT !.userRewards =
               SetKey(@, user, [userData EXCEPT !.currentTier = newTier,
                                                !.tierAchievedBlock = c.height])],
          Ok([tier |-> newTier, achievedAt |-> c.height]))

\* the total-points a caller passes: zero and the thresholds of the tiers
TotalPoints == {0, TIER_BRONZE, TIER_SILVER, TIER_GOLD, TIER_PLATINUM}

RewardsInit ==
    /\ Offchain
    /\ contract = Deployed("pulse-rewards", RewardsData)

CallAchieveTier(txSender, totalPoints) ==
    /\ contract.name = "pulse-rewards"
    /\ LET ret == AchieveTier(contract.data, txSender, totalPoints)
       IN  contract' = [contract EXCEPT
                          !.data = ret.data,
                          !.call = Call("achieve-tier", <<txSender, totalPoints>>),
                          !.response = ret.response]
    /\ UNCHANGED offchain

RewardsNext ==
    \/ \E txSender \in Users, totalPoints \in TotalPoints :
           CallAchieveTier(txSender, totalPoints)
    \/ MineBlock

RewardsSpec == RewardsInit /\ [][RewardsNext]_vars

(* pulse-core *)

ERR_COOLDOWN_ACTIVE     == 104
PULSE_FEE               == 1000
BOOST_FEE               == 5000
STREAK_BONUS_MULTIPLIER == 2
PULSE_COOLDOWN          == 6

CoreContract == "pulse-core"

\* the data of pulse-core after deployment, and the STX the principals hold
CoreData ==
    [height             |-> 1,
     totalPulses        |-> 0,
     totalFeesCollected |-> 0,
     userStats          |-> << >>,    \* principal -> stats
     activityLog        |-> << >>,    \* <<user, activity id>> -> logged action
     userActivityCount  |-> << >>,    \* principal -> number of logged actions
     stx                |-> [p \in Users \cup {CoreContract} |->
                                IF p = "SP1" THEN BOOST_FEE + 2 * PULSE_FEE
                                ELSE IF p = "SP2" THEN PULSE_FEE
                                ELSE 0]]

GetUserStatsOrDefault(c, user) ==
    IF user \in DOMAIN c.userStats THEN c.userStats[user]
    ELSE [totalPulses |-> 0, currentStreak |-> 0, longestStreak |-> 0,
          totalPoints |-> 0, lastPulseBlock |-> 0, boostsUsed |-> 0]

\* the count increment-activity-count stores and returns
IncrementActivityCount(c, user) ==
    (IF user \in DOMAIN c.userActivityCount THEN c.userActivityCount[user] ELSE 0) + 1

\* stx-transfer? of a positive amount to the contract
StxTransfer(stx, amount, sender) ==
    [stx EXCEPT ![sender] = @ - amount, ![CoreContract] = @ + amount]

\* a cooldown that ends one block early
CooldownOverOneBlockEarly(lastPulse, blocksSinceLast) ==
    lastPulse = 0 \/ blocksSinceLast >= PULSE_COOLDOWN - 1

\* the condition send-pulse asserts
CooldownOver(lastPulse, blocksSinceLast) ==
    lastPulse = 0 \/ blocksSinceLast >= PULSE_COOLDOWN

SendPulse(c, txSender) ==
    LET user            == txSender
        stats           == GetUserStatsOrDefault(c, user)
        lastPulse       == stats.lastPulseBlock
        blocksSinceLast == c.height - lastPulse
    IN  IF ~CooldownOver(lastPulse, blocksSinceLast)
        THEN Returned(c, Err(ERR_COOLDOWN_ACTIVE))
        \* stx-transfer? answers (err u1) when the sender holds less than the amount
        ELSE IF c.stx[user] < PULSE_FEE THEN Returned(c, Err(1))
        ELSE LET newStreak   == IF blocksSinceLast <= 288 THEN stats.currentStreak + 1 ELSE 1
                 streakBonus == IF newStreak > 1
                                THEN (newStreak - 1) * STREAK_BONUS_MULTIPLIER ELSE 0
                 basePoints  == 10
                 totalEarned == basePoints + streakBonus
                 activityId  == IncrementActivityCount(c, user)
             IN  Returned(
                   [c EXCEPT
                      !.stx = StxTransfer(@, PULSE_FEE, user),
                      !.userActivityCount = SetKey(@, user, activityId),
                      !.userStats = SetKey(@, user,
                          [totalPulses    |-> stats.totalPulses + 1,
                           currentStreak  |-> newStreak,
                           longestStreak  |-> IF newStreak > stats.longestStreak
                                              THEN newStreak ELSE stats.longestStreak,
                           totalPoints    |-> stats.totalPoints + totalEarned,
                           lastPulseBlock |-> c.height,
                           boostsUsed     |-> stats.boostsUsed]),
                      !.activityLog = SetKey(@, <<user, activityId>>,
                          [actionType |-> "pulse", points |-> totalEarned,
                           feePaid |-> PULSE_FEE, blockHeight |-> c.height]),
                      !.totalPulses = @ + 1,
                      !.totalFeesCollected = @ + PULSE_FEE],
                   Ok([pointsEarned |-> totalEarned, newStreak |-> newStreak,
                       totalPoints |-> stats.totalPoints + totalEarned]))

SendBoost(c, txSender) ==
    LET user        == txSender
        stats       == GetUserStatsOrDefault(c, user)
        activityId  == IncrementActivityCount(c, user)
        boostPoints == 50
    IN  IF c.stx[user] < BOOST_FEE THEN Returned(c, Err(1))
        ELSE Returned(
               [c EXCEPT
                  !.stx = StxTransfer(@, BOOST_FEE, user),
                  !.userActivityCount = SetKey(@, user, activityId),
                  !.userStats = SetKey(@, user,
                      [stats EXCEPT !.totalPoints = @ + boostPoints,
                                    !.boostsUsed = @ + 1]),
                  !.activityLog = SetKey(@, <<user, activityId>>,
                      [actionType |-> "boost", points |-> boostPoints,
                       feePaid |-> BOOST_FEE, blockHeight |-> c.height]),
                  !.totalFeesCollected = @ + BOOST_FEE],
               Ok([pointsEarned |-> boostPoints,
                   totalPoints |-> stats.totalPoints + boostPoints]))

CoreInit ==
    /\ Offchain
    /\ contract = Deployed(CoreContract, CoreData)

CallSendPulse(txSender) ==
    /\ contract.name = CoreContract
    /\ LET ret == SendPulse(contract.data, txSender)
       IN  contract' = [contract EXCEPT
                          !.data = ret.data,
                          !.call = Call("send-pulse", <<txSender>>),
                          !.response = ret.response]
    /\ UNCHANGED offchain

CallSendBoost(txSender) ==
    /\ contract.name = CoreContract
    /\ LET ret == SendBoost(contract.data, txSender)
       IN  contract' = [contract EXCEPT
                          !.data = ret.data,
                          !.call = Call("send-boost", <<txSender>>),
                          !.response = ret.response]
    /\ UNCHANGED offchain

CoreNext ==
    \/ \E txSender \in Users : CallSendPulse(txSender)
    \/ \E txSender \in Users : CallSendBoost(txSender)
    \/ MineBlock

CoreSpec == CoreInit /\ [][CoreNext]_vars

-----------------------------------------------------------------------------
(* Helpers of the properties *)

\* a step of the handler was taken and it executed one event of a payload
EventStep == last'.op = "event" /\ units' = units + 1

\* a step of the handler was taken and it started a call with a rollback
RollbackStep == last'.op = "rollback" /\ Len(calls') = Len(calls) + 1

\* a step of the handler was taken and it ended the loops of a call
FinishStep == last'.op = "finish" /\ Len(calls') = Len(calls) /\ calls' # calls

StoreChanged == store' # store

Range(seq) == {seq[i] : i \in 1..Len(seq)}

-----------------------------------------------------------------------------
(* C1: when deliveries A and then B are accepted, every store mutation of A *)
(* happens before any store mutation of B: no call changes the store once a *)
(* call accepted after it has changed it.                                   *)
C1_MutationsNeverInterleave ==
    [][StoreChanged =>
        \A b \in 1..Len(calls) : b > last'.call => ~calls[b].mutated]_vars

(* C2: a rollback with a non-empty block list removes from the ledger       *)
(* exactly the records whose blockHeight is the index of a listed block,    *)
(* keeps the others in order, and leaves the leaderboard, totalFees and     *)
(* totalTransactions as they were.                                          *)
C2_RollbackRemovesByHeightOnly ==
    [][RollbackStep =>
        /\ activities' = SelectSeq(activities,
                LAMBDA a : a.blockHeight \notin Range(last'.rollback))
        /\ leaderboard' = leaderboard
        /\ totalFees' = totalFees
        /\ totalTransactions' = totalTransactions]_vars

\* two pulses of 60 points at heights 100 and 101, then height 100 rolled back:
\* one record is left and the user's total is still 120
C2_Witness ==
    /\ last.op = "rollback"
    /\ last.rollback = <<100>>
    /\ Len(activities) = 1
    /\ activities[1].blockHeight = 101
    /\ "SP1" \in DOMAIN leaderboard
    /\ leaderboard["SP1"].totalPoints = 120
    /\ totalFees = 6
    /\ totalTransactions = 2

(* C3: in every reachable state no two activity records of the ledger have  *)
(* the same identifier.                                                     *)
C3_IdentifiersUnique ==
    \A i, j \in 1..Len(activities) : i # j => activities[i].id # activities[j].id

-----------------------------------------------------------------------------
(* What the event table of the classifier says of an event *)

EarningTags ==
    {"pulse-sent", "boost-activated", "daily-checkin", "mega-pulse", "challenge-completed"}

KnownTags == EarningTags \cup {"reward-claimed", "tier-achieved"}

Recognized(ev) ==
    \/ ev.type = "print_event" /\ ev.tag \in KnownTags
    \/ ev.type \in {"nft_mint_event", "stx_transfer_event"}

\* the fixed suffix of the record identifier, per event kind
KindSuffix(ev) ==
    CASE ev.type = "nft_mint_event" -> "-nft"
      [] ev.type = "stx_transfer_event" -> "-stx"
      [] ev.tag = "pulse-sent" -> "-pulse"
      [] ev.tag = "boost-activated" -> "-boost"
      [] ev.tag = "daily-checkin" -> "-checkin"
      [] ev.tag = "mega-pulse" -> "-mega"
      [] ev.tag = "challenge-completed" -> "-challenge"
      [] ev.tag = "reward-claimed" -> "-reward"
      [] ev.tag = "tier-achieved" -> "-tier"

\* the activity channel of an event kind
ActivityChannel(ev) ==
    CASE ev.type = "nft_mint_event" -> "badge"
      [] ev.type = "stx_transfer_event" -> "stx-transfer"
      [] ev.tag = "pulse-sent" -> "pulse"
      [] ev.tag = "boost-activated" -> "boost"
      [] ev.tag = "daily-checkin" -> "checkin"
      [] ev.tag = "mega-pulse" -> "mega-pulse"
      [] ev.tag = "challenge-completed" -> "challenge"
      [] ev.tag = "reward-claimed" -> "reward"
      [] ev.tag = "tier-achieved" -> "tier"

IsEarning(ev) == ev.type = "print_event" /\ ev.tag \in EarningTags

\* what the event adds to totalFees and to its user's totalPoints
FeeDelta(ev) ==
    IF IsEarning(ev) /\ ev.tag # "daily-checkin" THEN ev.fee ELSE 0

PointsDelta(ev) == IF IsEarning(ev) THEN ev.points ELSE 0

PointsOf(lb, user) == IF user \in DOMAIN lb THEN lb[user].totalPoints ELSE 0

\* the tier the thresholds give to a point total
TierOf(points) ==
    IF points >= 5000 THEN "platinum"
    ELSE IF points >= 1000 THEN "gold"
    ELSE IF points >= 500 THEN "silver"
    ELSE IF points >= 100 THEN "bronze"
    ELSE "none"

TierMatches(entry) == entry.tier = TierOf(entry.totalPoints)

-----------------------------------------------------------------------------
(* C4: identifiers are deterministic and nothing is deduplicated: a         *)
(* recognized event appends one record with identifier transaction hash +   *)
(* kind suffix behind the records already there, also when the ledger       *)
(* already holds that identifier, and the totalFees and leaderboard deltas  *)
(* are applied again; the end of a call adds its transaction count to       *)
(* totalTransactions again.                                                 *)
C4_SameEventAppendsAndCountsAgain ==
    [][/\ (EventStep /\ Recognized(last'.ev)) =>
            LET n == Len(activities)
                ev == last'.ev
            IN  /\ Len(activities') = n + 1
                /\ SubSeq(activities', 1, n) = activities
                /\ activities'[n + 1].id = last'.txHash \o KindSuffix(ev)
                /\ totalFees' = totalFees + FeeDelta(ev)
                /\ PointsOf(leaderboard', ev.user)
                     = PointsOf(leaderboard, ev.user) + PointsDelta(ev)
       /\ FinishStep =>
            totalTransactions' = totalTransactions + calls[last'.call].txCount]_vars

\* the same one-pulse payload delivered twice, both calls resolved
C4_Witness ==
    /\ Len(calls) = 2
    /\ \A d \in 1..2 : calls[d].status = "resolved"
    /\ Len(activities) = 2
    /\ activities[1] = activities[2]
    /\ activities[1].id = "0xaa-pulse"
    /\ leaderboard["SP1"].totalPoints = 120
    /\ leaderboard["SP1"].totalPulses = 2
    /\ totalFees = 6
    /\ totalTransactions = 2

(* C5: a listener that throws keeps no later listener of its channel from   *)
(* being called, and the activity-channel event of a point-earning event is *)
(* published after leaderboard-update all the same.                         *)
C5_FailingListenerIsIsolated ==
    /\ \A i \in 1..Len(emitted) :
          emitted[i].invoked = Len(listeners[emitted[i].channel])
    /\ (last.op = "event" /\ IsEarning(last.ev)) =>
          \E i \in 1..Len(emitted) : emitted[i].channel = ActivityChannel(last.ev)

(* C6: a listener that throws, on whatever channel, does not make           *)
(* processPayload reject.                                                   *)
C6_ThrowingListenerNeverRejects ==
    \A d \in 1..Len(calls) : calls[d].status # "rejected"

(* C7 as claimed: in every reachable state every leaderboard entry's tier   *)
(* is the threshold function of its totalPoints.                            *)
C7_TierIsThresholdOfPoints ==
    \A u \in DOMAIN leaderboard : TierMatches(leaderboard[u])

(* C7 as amended: an entry is created with, and every step other than a     *)
(* reward-claimed or tier-achieved event of its user keeps, tier equal to   *)
(* the threshold function of totalPoints.                                   *)
C7_TierFollowsPointsUnlessOverwritten ==
    [][\A u \in DOMAIN leaderboard' :
          (/\ u \in DOMAIN leaderboard => TierMatches(leaderboard[u])
           /\ ~(/\ EventStep
                /\ last'.ev.tag \in {"reward-claimed", "tier-achieved"}
                /\ last'.ev.user = u))
          => TierMatches(leaderboard'[u])]_vars

\* 450 + 60 points: the second earning event moves the entry from bronze to silver
C7_Witness ==
    /\ last.op = "event"
    /\ IsEarning(last.ev)
    /\ last.ev.user = "SP1"
    /\ "SP1" \in DOMAIN leaderboard
    /\ leaderboard["SP1"].totalPoints = 510
    /\ leaderboard["SP1"].tier = "silver"

(* C8: totalFees is the sum of the fee field over all records ever          *)
(* appended: every append adds the appended record's fee.                   *)
C8_TotalFeesSumsRecordFees ==
    [][(EventStep /\ Len(activities') = Len(activities) + 1) =>
          totalFees' = totalFees + activities'[Len(activities')].fee]_vars

(* C9: every user with an activity record has a leaderboard entry.          *)
C9_EveryActiveUserHasEntry ==
    \A i \in 1..Len(activities) : activities[i].user \in DOMAIN leaderboard

(* C10: a reward-claimed event appends a record with points = minus         *)
(* points_spent and fee 0; totalFees and every leaderboard field but the    *)
(* tier of the user's existing entry stay; no entry is created.             *)
C10_RewardOnlyOverwritesTier ==
    [][(EventStep /\ last'.ev.type = "print_event" /\ last'.ev.tag = "reward-claimed") =>
          LET ev == last'.ev
              rec == activities'[Len(activities')]
          IN  /\ Len(activities') = Len(activities) + 1
              /\ SubSeq(activities', 1, Len(activities)) = activities
              /\ rec.eventType = "reward"
              /\ rec.user = ev.user
              /\ rec.points = 0 - ev.points
              /\ rec.fee = 0
              /\ totalFees' = totalFees
              /\ totalTransactions' = totalTransactions
              /\ DOMAIN leaderboard' = DOMAIN leaderboard
              /\ \A u \in DOMAIN leaderboard :
                    leaderboard'[u] =
                        IF u = ev.user THEN [leaderboard[u] EXCEPT !.tier = ev.tier]
                        ELSE leaderboard[u]]_vars

\* a reward of 50 points claimed by a user holding 450: the total stays, the tier is gold
C10_Witness ==
    /\ last.op = "event"
    /\ last.ev.tag = "reward-claimed"
    /\ "SP1" \in DOMAIN leaderboard
    /\ leaderboard["SP1"].totalPoints = 450
    /\ leaderboard["SP1"].tier = "gold"
    /\ activities[Len(activities)].points = -50

(* C16: a print event whose tag is none of the seven known tags appends no   *)
(* record, changes no leaderboard entry, no totalFees and no                *)
(* totalTransactions, and publishes nothing.                                *)
C16_UnknownTagIsDropped ==
    [][(EventStep /\ last'.ev.type = "print_event" /\ last'.ev.tag \notin KnownTags) =>
          /\ activities' = activities
          /\ leaderboard' = leaderboard
          /\ totalFees' = totalFees
          /\ totalTransactions' = totalTransactions
          /\ emitted' = << >>]_vars

\* an unrecognized print event processed after a mega-pulse: the store is as before
C16_Witness ==
    /\ last.op = "event"
    /\ last.ev.type = "print_event"
    /\ last.ev.tag = "something-unrecognized"
    /\ Len(activities) = 1
    /\ activities[1].eventType = "mega-pulse"
    /\ DOMAIN leaderboard = {"SP1"}
    /\ totalFees = 3
    /\ emitted = << >>

\* the run holds no reward-claimed or tier-achieved event of this user
NeverOverwritten(user) ==
    \A e \in env.events : e.user = user => e.tag \notin {"reward-claimed", "tier-achieved"}

(* C17: after a point-adding event brings the total of a user without       *)
(* reward-claimed or tier-achieved events to T, the tier is platinum from   *)
(* 5000, gold in 1000..4999, silver in 500..999, bronze in 100..499 and     *)
(* none below 100.                                                          *)
C17_TierBandsAfterEarning ==
    [][(EventStep /\ IsEarning(last'.ev) /\ NeverOverwritten(last'.ev.user)) =>
          LET T == leaderboard'[last'.ev.user].totalPoints
              tier == leaderboard'[last'.ev.user].tier
          IN  /\ T >= 5000 => tier = "platinum"
              /\ (1000 <= T /\ T < 5000) => tier = "gold"
              /\ (500 <= T /\ T < 1000) => tier = "silver"
              /\ (100 <= T /\ T < 500) => tier = "bronze"
              /\ T < 100 => tier = "none"]_vars

\* 99 points, then 1 more: the total is exactly 100 and the tier bronze
C17_Witness ==
    /\ last.op = "event"
    /\ last.ev.points = 1
    /\ Len(activities) = 2
    /\ activities[1].points = 99
    /\ leaderboard["SP1"].totalPoints = 100
    /\ leaderboard["SP1"].tier = "bronze"

(* C18: a pulse-sent event with streak s sets currentStreak to s and        *)
(* longestStreak to the larger of the previous longestStreak and s, for     *)
(* every s >= 0, s = 0 included.                                            *)
C18_PulseSetsStreak ==
    [][(EventStep /\ last'.ev.type = "print_event" /\ last'.ev.tag = "pulse-sent") =>
          LET u == last'.ev.user
              s == last'.ev.streak
              longest == IF u \in DOMAIN leaderboard THEN leaderboard[u].longestStreak ELSE 0
          IN  /\ leaderboard'[u].currentStreak = s
              /\ leaderboard'[u].longestStreak = IF s > longest THEN s ELSE longest]_vars

-----------------------------------------------------------------------------
(* Properties of whole payloads (PayloadSpec) *)

\* the step started a call
ReceiveStep == Len(calls') = Len(calls) + 1

\* call d resolves in this step
Resolves(d) ==
    /\ d \in 1..Len(calls')
    /\ calls'[d].status = "resolved"
    /\ d \in 1..Len(calls) => calls[d].status = "running"

\* where the recognized events of a block list sit: <<block, transaction, event>>
RecognizedAt(blocks) ==
    {<<b, t, e>> \in (1..Len(blocks)) \X (1..3) \X (1..3) :
        /\ t <= Len(blocks[b].transactions)
        /\ e <= Len(blocks[b].transactions[t].events)
        /\ Recognized(blocks[b].transactions[t].events[e])}

\* block order, then transaction order, then event order
Precedes(q, p) ==
    \/ q[1] < p[1]
    \/ q[1] = p[1] /\ q[2] < p[2]
    \/ q[1] = p[1] /\ q[2] = p[2] /\ q[3] < p[3]

RankIn(blocks, p) == Cardinality({q \in RecognizedAt(blocks) : Precedes(q, p)}) + 1

\* recs holds one record per recognized event of blocks, in the order of their places
InPayloadOrder(recs, blocks) ==
    /\ Len(recs) = Cardinality(RecognizedAt(blocks))
    /\ \A p \in RecognizedAt(blocks) :
          LET tx == blocks[p[1]].transactions[p[2]]
              rec == recs[RankIn(blocks, p)]
          IN  /\ rec.id = tx.hash \o KindSuffix(tx.events[p[3]])
              /\ rec.txHash = tx.hash
              /\ rec.blockHeight = blocks[p[1]].index

TransactionsIn(blocks) ==
    Cardinality({<<b, t>> \in (1..Len(blocks)) \X (1..3) : t <= Len(blocks[b].transactions)})

(* C11: a call that resolves has appended one record per recognized event   *)
(* of its apply blocks, in block, then transaction, then event order, and   *)
(* adds the number of transactions of those blocks to totalTransactions,    *)
(* recognized events or not.                                                *)
C11_RecordsInPayloadOrder ==
    [][\A d \in 1..MaxDeliveries :
          Resolves(d) =>
             /\ InPayloadOrder(calls'[d].appended, calls'[d].applyBlocks)
             /\ totalTransactions'
                  = totalTransactions + TransactionsIn(calls'[d].applyBlocks)]_vars

\* two blocks, three transactions, five events: three records, three transactions counted
C11_Witness ==
    /\ Len(calls) = 1
    /\ calls[1].status = "resolved"
    /\ calls[1].applyBlocks = TwoBlocks
    /\ [i \in 1..Len(activities) |-> activities[i].id] = <<"0xaa-pulse", "0xaa-stx", "0xcc-nft">>
    /\ [i \in 1..Len(activities) |-> activities[i].blockHeight] = <<100, 100, 101>>
    /\ totalTransactions = 3

\* the shapes of a payload by rank, each missing or present
ShapesOf(p) ==
    LET ev == IF p.event = None THEN NoFields ELSE p.event[1]
    IN  <<p.apply,
          ev.apply,
          ev.blocks,
          IF ev.inline = None THEN None
          ELSE Some(<<Block(ev.inline[1].index, <<ev.inline[1].tx>>)>>),
          IF ev.contract_log = None THEN None
          ELSE Some(<<Block(ev.contract_log[1].index,
                            <<Tx(TRUE, ev.contract_log[1].tx_id,
                                 <<[ev.contract_log[1].data EXCEPT !.type = "contract_log"]>>)>>)>>)>>

FirstShape(p) ==
    LET present == {k \in 1..5 : ShapesOf(p)[k] # None}
    IN  IF present = {} THEN << >>
        ELSE ShapesOf(p)[CHOOSE k \in present : \A j \in present : k <= j][1]

HashesIn(blocks) ==
    {blocks[b].transactions[t].hash :
        <<b, t>> \in {<<b, t>> \in (1..Len(blocks)) \X (1..3) : t <= Len(blocks[b].transactions)}}

(* C12: the apply blocks of a call are those of the first shape present in  *)
(* the order apply, event.apply, event.blocks, inline transaction,          *)
(* contract_log (none: empty), and every record the call appends comes from *)
(* a transaction of that shape.                                             *)
C12_FirstShapeWins ==
    \A d \in 1..Len(calls) :
        /\ calls[d].applyBlocks = FirstShape(calls[d].payload)
        /\ \A i \in 1..Len(calls[d].appended) :
              calls[d].appended[i].txHash \in HashesIn(FirstShape(calls[d].payload))

\* a payload with apply (0xaa) and event.apply (0xbb): only 0xaa leaves a record
C12_Witness ==
    /\ Len(calls) = 1
    /\ calls[1].status = "resolved"
    /\ calls[1].payload.apply = Some(OnePulse("0xaa", 100, "SP1"))
    /\ calls[1].payload.event # None
    /\ calls[1].payload.event[1].apply = Some(OnePulse("0xbb", 100, "SP1"))
    /\ Len(activities) = 1
    /\ activities[1].id = "0xaa-pulse"
    /\ totalTransactions = 1

\* the payload's only shape is a contract_log whose record carries the tag pulse-sent
IsPulseLog(p) ==
    /\ p.apply = None
    /\ p.event # None
    /\ p.event[1].apply = None /\ p.event[1].blocks = None /\ p.event[1].inline = None
    /\ p.event[1].contract_log # None
    /\ p.event[1].contract_log[1].data.tag = "pulse-sent"

(* C13: a payload whose event holds a contract_log carrying the tag         *)
(* pulse-sent becomes one block with one transaction (hash tx_id) with one  *)
(* event that reaches the print-event classifier: the call leaves one pulse *)
(* record.                                                                  *)
C13_ContractLogYieldsPulseRecord ==
    \A d \in 1..Len(calls) :
        (calls[d].status = "resolved" /\ IsPulseLog(calls[d].payload)) =>
            /\ Len(calls[d].applyBlocks) = 1
            /\ Len(calls[d].applyBlocks[1].transactions) = 1
            /\ calls[d].applyBlocks[1].transactions[1].hash
                 = calls[d].payload.event[1].contract_log[1].tx_id
            /\ Len(calls[d].appended) = 1
            /\ calls[d].appended[1].eventType = "pulse"

\* the payload has no rollback and none of the shapes
IsShapeless(p) ==
    /\ RollbackOf(p) = << >>
    /\ p.apply = None
    /\ \/ p.event = None
       \/ ~p.event[1].isObject
       \/ /\ p.event[1].apply = None /\ p.event[1].blocks = None
          /\ p.event[1].inline = None /\ p.event[1].contract_log = None

(* C14: a payload of no recognized shape and without rollback makes the     *)
(* call complete without error and leaves ledger, leaderboard, totalFees    *)
(* and totalTransactions as they were, with no notification.                *)
C14_ShapelessPayloadIsNoOp ==
    [][(ReceiveStep /\ IsShapeless(calls'[Len(calls')].payload)) =>
          /\ calls'[Len(calls')].status = "resolved"
          /\ activities' = activities
          /\ leaderboard' = leaderboard
          /\ totalFees' = totalFees
          /\ totalTransactions' = totalTransactions
          /\ emitted' = << >>]_vars

\* an event object without any known field received after an ordinary payload
C14_Witness ==
    /\ Len(calls) = 2
    /\ calls[1].status = "resolved"
    /\ calls[2].status = "resolved"
    /\ calls[2].payload = Payload(None, None, Some(NoFields))
    /\ Len(activities) = 1
    /\ DOMAIN leaderboard = {"SP1"}
    /\ totalFees = 3
    /\ totalTransactions = 1

(* C15: no call of processPayload is rejected because of the shape of its   *)
(* payload (no subscriber throws in these runs).                            *)
C15_NoShapeRejects ==
    \A d \in 1..Len(calls) : calls[d].status \in {"running", "resolved"}

-----------------------------------------------------------------------------
(* Properties of the decoder (DecodeSpec) *)

\* the bytes a string stands for, with or without 0x in front
BytesOf(chars) ==
    HexDecode(IF StartsWith0x(chars) THEN SubSeq(chars, 3, Len(chars)) ELSE chars)

(* C19: a call always returns, and for a string whose bytes are not JSON    *)
(* text and do not begin with the tuple marker 0x0c it returns {raw: h},    *)
(* h being the string as it came in, 0x prefix included.                    *)
C19_RawFallbackKeepsInput ==
    decoded # Pending =>
        /\ decoded.kind \in {"json", "object"}
        /\ (/\ ~IsJsonText(BytesOf(hexValue))
            /\ ~(Len(BytesOf(hexValue)) > 0 /\ BytesOf(hexValue)[1] = 12))
           => /\ decoded.kind = "object"
              /\ DOMAIN decoded.fields = {RawKey}
              /\ decoded.fields[RawKey] = hexValue

\* "0x7a7a" (the bytes of zz) comes back as {raw: "0x7a7a"}
C19_Witness ==
    /\ hexValue = <<"0", "x", "7", "a", "7", "a">>
    /\ decoded = Object([k \in {RawKey} |-> <<"0", "x", "7", "a", "7", "a">>])

KnownTypes == {0, 1, 6, 7, 9}

\* bytes of the header and the first j fields
EncodedLength(fields, j) == Len(EncodeTuple(SubSeq(fields, 1, j)))

\* how many leading fields are of a known type and lie wholly within the first n bytes
CompleteFields(fields, n) ==
    LET ok == {j \in 0..Len(fields) :
                  /\ \A i \in 1..j : fields[i].type \in KnownTypes
                  /\ EncodedLength(fields, j) <= n}
    IN  IF ok = {} THEN 0 ELSE CHOOSE j \in ok : \A i \in ok : i <= j

\* the text a string or principal field decodes to
TextOf(f) ==
    IF f.type \in {6, 7} THEN Utf8(SubSeq(f.value, 3, Len(f.value)))
    ELSE <<"0", "x">> \o ToHex(f.value)

(* C20: for a tuple cut anywhere, or holding a value of unknown type, the   *)
(* walk returns an object with exactly the fields that precede the first    *)
(* unknown type and lie wholly within the buffer: never the raw fallback,   *)
(* never an exception.                                                      *)
C20_PartialTupleIsPrefix ==
    (decoded # Pending /\ env.kind = "tuple" /\ env.cut >= 1) =>
        LET k == CompleteFields(env.fields, env.cut)
        IN  /\ decoded.kind = "object"
            /\ DOMAIN decoded.fields = {Utf8(env.fields[i].key) : i \in 1..k}
            /\ \A i \in 1..k :
                  env.fields[i].type \in {6, 7, 9} =>
                      decoded.fields[Utf8(env.fields[i].key)] = TextOf(env.fields[i])

\* an integer and a string field, cut inside the string: the integer field alone is returned
C20_Witness ==
    /\ decoded # Pending
    /\ env.kind = "tuple"
    /\ env.fields = <<UIntField, StringField>>
    /\ env.cut = Len(EncodeTuple(env.fields)) - 1
    /\ DOMAIN decoded.fields = {<<"a">>}


(* C21 as claimed: a 16-byte integer field (type byte 0x00 or 0x01) decodes *)
(* to the decimal string of its low-order 64 bits, the last 8 of its 16     *)
(* big-endian bytes.                                                        *)
C21_IntegerIsLowOrder64Bits ==
    (decoded # Pending /\ env.kind = "tuple") =>
        \A i \in 1..CompleteFields(env.fields, env.cut) :
            env.fields[i].type \in {0, 1} =>
                decoded.fields[Utf8(env.fields[i].key)]
                    = DecimalString(SubSeq(env.fields[i].value, 9, 16))

\* a tuple value as the object the decoder is to return
ObjectOf(t) ==
    Object([k \in {Utf8(t[i].key) : i \in 1..Len(t)} |->
               LET v == t[CHOOSE i \in 1..Len(t) : Utf8(t[i].key) = k]
               IN  IF v.type = 1 THEN Decimal(v.value[1]) ELSE Utf8(v.value)])

(* C22 as claimed: decoding the encoding of a tuple of unsigned integers    *)
(* below 2^64 and ASCII strings returns the tuple, integers as decimal      *)
(* strings: field1 = 42 and field2 = "pulse" come back as                   *)
(* {field1: "42", field2: "pulse"}.                                         *)
C22_DecodeInvertsEncode ==
    (decoded # Pending /\ env.kind = "roundtrip") => decoded = ObjectOf(env.fields)


\* the smaller of two numbers
Min(a, b) == IF a < b THEN a ELSE b

(* C23 as claimed: for every limit >= 0, 0 included, getActivities(limit)   *)
(* returns exactly min(limit, ledger length) records, the last ones         *)
(* appended, most recent first, and getUserActivities(user, limit) does     *)
(* the same over the records of that user.                                  *)
C23_QueriesReturnMostRecent ==
    reply.op # "none" =>
        LET asked == IF reply.op = "getActivities" THEN activities
                     ELSE SelectSeq(activities, LAMBDA a : a.user = reply.user)
            n == Min(reply.limit, Len(asked))
        IN  /\ Len(reply.result) = n
            /\ \A i \in 1..n : reply.result[i] = asked[Len(asked) + 1 - i]


-----------------------------------------------------------------------------
(* Properties of notification, ledger and pulse counts (Spec) *)

\* the places of emitted' that hold an emit on channel ch
EmitsOn(ems, ch) == {i \in 1..Len(ems) : ems[i].channel = ch}

(* C24 as claimed: every state change publishes one notification: an        *)
(* appended record exactly one event on its activity channel, a delivery    *)
(* with a non-empty rollback a rollback event, and every change of a        *)
(* leaderboard entry, the tier overwrite of reward-claimed and              *)
(* tier-achieved included, a leaderboard-update event of that entry         *)
(* (stated for the runs in which no listener throws).                       *)
C24_EveryChangeIsPublished ==
    [][listeners = ServerListeners =>
        /\ (EventStep /\ Len(activities') = Len(activities) + 1) =>
             Cardinality(EmitsOn(emitted', ActivityChannel(last'.ev))) = 1
        /\ RollbackStep => EmitsOn(emitted', "rollback") # {}
        /\ \A u \in DOMAIN leaderboard' :
             (u \notin DOMAIN leaderboard \/ leaderboard'[u] # leaderboard[u]) =>
                 \E i \in EmitsOn(emitted', "leaderboard-update") : emitted'[i].user = u]_vars


(* C25: the ledger is a subsequence, in append order, of the records ever   *)
(* appended: a step leaves it alone, or an event puts one record behind     *)
(* the unchanged others, or a rollback takes out the records whose          *)
(* blockHeight it names and keeps the others as they were and in order.     *)
C25_LedgerChangesByAppendOrRollback ==
    [][\/ activities' = activities
       \/ /\ EventStep
          /\ Len(activities') = Len(activities) + 1
          /\ SubSeq(activities', 1, Len(activities)) = activities
       \/ /\ RollbackStep
          /\ activities' = SelectSeq(activities,
                 LAMBDA a : a.blockHeight \notin Range(last'.rollback))]_vars

\* records appended at heights 100 and 101, then height 101 rolled back: the first stays
C25_Witness ==
    /\ last.op = "rollback"
    /\ last.rollback = <<101>>
    /\ Len(activities) = 1
    /\ activities[1].blockHeight = 100
    /\ activities[1].id = "0xaa-pulse"
    /\ totalTransactions = 2


PulsesOf(lb, user) == IF user \in DOMAIN lb THEN lb[user].totalPulses ELSE 0

\* what the event adds to the totalPulses of a user
PulsesDelta(ev, user) ==
    IF ev.type = "print_event" /\ ev.user = user
    THEN IF ev.tag = "pulse-sent" THEN 1
         ELSE IF ev.tag = "mega-pulse" THEN ev.multiplier
         ELSE 0
    ELSE 0

(* C26: a user's totalPulses is the number of the user's pulse-sent events  *)
(* plus the sum of the multipliers of the user's mega-pulse events: a       *)
(* pulse-sent event adds 1, a mega-pulse event its multiplier, and no other *)
(* event and no rollback changes it.                                        *)
C26_TotalPulsesCountsPulsesAndMultipliers ==
    [][\A u \in Users :
          PulsesOf(leaderboard', u) =
              PulsesOf(leaderboard, u) + (IF EventStep THEN PulsesDelta(last'.ev, u) ELSE 0)]_vars

\* a pulse and then a mega pulse of multiplier 2: three pulses
C26_Witness ==
    /\ last.op = "event"
    /\ last.ev.tag = "mega-pulse"
    /\ "SP1" \in DOMAIN leaderboard
    /\ leaderboard["SP1"].totalPulses = 3
    /\ Len(activities) = 2
    /\ activities[1].eventType = "pulse"


-----------------------------------------------------------------------------
(* Properties of the registration script (HookSpec) *)

HooksNamed(remote, name) == SelectSeq(remote, LAMBDA h : h.name = name)

OnePerName(remote) == \A name \in desiredHookNames : Len(HooksNamed(remote, name)) = 1

OtherHooks(remote) == SelectSeq(remote, LAMBDA h : h.name \notin desiredHookNames)

(* C27: whatever the account held and however often the script is run, a    *)
(* run that ends leaves exactly one hook of each of the nine names; a hook  *)
(* is registered only under a name no hook has; once there is one hook per  *)
(* name a run changes nothing; and no step deletes or changes a hook of     *)
(* another name.                                                            *)
C27_ScriptLeavesOneHookPerName ==
    [][/\ script'.phase = "done" => OnePerName(hooks')
       /\ Len(hooks') > Len(hooks) =>
            /\ hooks' = Append(hooks, hooks'[Len(hooks')])
            /\ HooksNamed(hooks, hooks'[Len(hooks')].name) = << >>
       /\ OnePerName(hooks) => hooks' = hooks
       /\ OtherHooks(hooks') = OtherHooks(hooks)]_vars

\* an account with two PulseSent hooks and a hook of another name, after two runs
C27_Witness ==
    /\ env.hooks = Remote(<<"ChainPulse-PulseSent", "Other-Hook", "ChainPulse-PulseSent">>)
    /\ script.phase = "done"
    /\ script.runs = 2
    /\ Len(hooks) = 10
    /\ hooks[1] = Hook(1, "ChainPulse-PulseSent")
    /\ hooks[2] = Hook(2, "Other-Hook")
    /\ issued = 11


-----------------------------------------------------------------------------
(* Properties of the webhook route (PayloadSpec) *)

ResponsesTo(d) == SelectSeq(responses, LAMBDA r : r.call = d)

BroadcastsFor(d) == SelectSeq(broadcasts, LAMBDA m : m.call = d)

(* C28: the route answers a request whose processPayload call was rejected  *)
(* with status 500, and one whose call resolved with status 200; it         *)
(* answers once, not before the call has settled, and for a request         *)
(* answered with 500 no chainhook-event message is sent to any client.      *)
C28_StatusFollowsOutcome ==
    \A d \in 1..Len(calls) :
        /\ calls[d].status = "rejected" =>
              /\ ResponsesTo(d) = <<[call |-> d, status |-> 500]>>
              /\ BroadcastsFor(d) = << >>
        /\ calls[d].status = "resolved" =>
              ResponsesTo(d) = <<[call |-> d, status |-> 200]>>
        /\ calls[d].status = "running" =>
              ResponsesTo(d) = << >> /\ BroadcastsFor(d) = << >>

\* a payload with a transaction without identifier answered 500 after its first
\* record was appended, then the same payload again
C28_Witness ==
    /\ Len(calls) = 2
    /\ calls[1].status = "rejected"
    /\ calls[2].status = "rejected"
    /\ Len(activities) = 2
    /\ responses = <<[call |-> 1, status |-> 500], [call |-> 2, status |-> 500]>>
    /\ broadcasts = << >>


\* the rollback list a payload names: the one at the top when there is one, else event's
NamedRollback(p) ==
    CASE p.rollback # None -> p.rollback[1]
      [] p.rollback = None /\ p.event # None /\ p.event[1].rollback # None ->
            p.event[1].rollback[1]
      [] OTHER -> << >>

(* C29: the rollback list of a payload (top-level rollback, else            *)
(* event.rollback) is applied when the call starts, before any of the       *)
(* payload's apply blocks: the records then in the ledger at a listed       *)
(* height are removed, and no later step of the call removes anything, so   *)
(* the records of the payload's own apply blocks stay whatever their        *)
(* height.                                                                  *)
C29_RollbackBeforeApply ==
    [][IF ReceiveStep /\ NamedRollback(calls'[Len(calls')].payload) # << >>
       THEN /\ activities' = SelectSeq(activities, LAMBDA a :
                   a.blockHeight \notin Range(NamedRollback(calls'[Len(calls')].payload)))
            /\ calls'[Len(calls')].appended = << >>
       ELSE /\ Len(activities') >= Len(activities)
            /\ SubSeq(activities', 1, Len(activities)) = activities]_vars

\* a record at height 100, then a payload that rolls height 100 back (list nested in
\* event) and applies a block at height 100: the old record is gone, the new one stays
C29_Witness ==
    /\ Len(calls) = 2
    /\ calls[1].appended # << >>
    /\ calls[1].appended[1].id = "0xaa-pulse"
    /\ calls[2].status = "resolved"
    /\ calls[2].payload = Payload(None, Some(OnePulse("0xbb", 100, "SP2")),
                                  NestedRollback(<<100>>))
    /\ Len(activities) = 1
    /\ activities[1].id = "0xbb-pulse"
    /\ activities[1].blockHeight = 100


(* C30: notification trails mutation: when the listeners of the activity    *)
(* channel are called for an event, its record is the last of the ledger    *)
(* and the ledger, totalFees and the user's total are what they are when    *)
(* the handler is done; for the five point-earning events the               *)
(* leaderboard-update event has been published before.                      *)
C30_NotificationTrailsMutation ==
    [][(EventStep /\ Recognized(last'.ev)) =>
          \A i \in EmitsOn(emitted', ActivityChannel(last'.ev)) :
              /\ emitted'[i].seen.records = Len(activities) + 1
              /\ emitted'[i].seen.lastId = last'.txHash \o KindSuffix(last'.ev)
              /\ emitted'[i].seen = Seen(Written(activities', leaderboard', totalFees'),
                                         emitted'[i].user)
              /\ IsEarning(last'.ev) =>
                    \E j \in EmitsOn(emitted', "leaderboard-update") : j < i]_vars

\* a second pulse of a user: the listener of channel pulse finds two records, the
\* fees of both and 120 points, after leaderboard-update was published
C30_Witness ==
    /\ last.op = "event"
    /\ last.ev.tag = "pulse-sent"
    /\ Len(emitted) = 2
    /\ emitted[1].channel = "leaderboard-update"
    /\ emitted[2].channel = "pulse"
    /\ emitted[2].seen.records = 2
    /\ emitted[2].seen.totalFees = 6
    /\ emitted[2].seen.totalPoints = 120


(* C31: a rollback is not remembered and the ledger is kept in arrival      *)
(* order: whatever was rolled back before, an event that makes a record     *)
(* puts it, with the height of its block, behind the unchanged records the  *)
(* ledger holds, also when the step before was the rollback of that very    *)
(* height by another delivery; and no step other than a rollback takes a    *)
(* record out or moves one.                                                 *)
C31_RollbackIsNotRemembered ==
    [][/\ EventStep /\ Recognized(last'.ev) =>
            /\ Len(activities') = Len(activities) + 1
            /\ SubSeq(activities', 1, Len(activities)) = activities
            /\ activities'[Len(activities')].blockHeight = last'.height
            /\ activities'[Len(activities')].txHash = last'.txHash
       /\ ~RollbackStep =>
            /\ Len(activities') >= Len(activities)
            /\ \A i \in 1..Len(activities) : activities'[i] = activities[i]]_vars

(* the first delivery was a rollback (every list names height 100 or 101)   *)
(* and waits at its await; the second then applied a block at 101 and one   *)
(* at 100: both records are in the ledger, the higher block first           *)
C31_Witness ==
    /\ env = LedgerEnv
    /\ Len(calls) = 2
    /\ calls[1].status = "running"
    /\ calls[1].txCount = 0
    /\ last.op = "event"
    /\ last.call = 2
    /\ Len(activities) = 2
    /\ activities[1].blockHeight = 101
    /\ activities[2].blockHeight = 100


\* call d is rejected in this step
Rejects(d) ==
    /\ d \in 1..Len(calls')
    /\ calls'[d].status = "rejected"
    /\ d \in 1..Len(calls) => calls[d].status = "running"

\* the transactions in front of the first one without transaction_identifier
BeforeFirstThrow(txs) ==
    IF \E t \in 1..Len(txs) : ~txs[t].hasId
    THEN SubSeq(txs, 1, (CHOOSE t \in 1..Len(txs) :
                            /\ ~txs[t].hasId
                            /\ \A u \in 1..(t - 1) : txs[u].hasId) - 1)
    ELSE txs

\* the blocks and transactions the loops get through before processTransaction throws
RECURSIVE ProcessedBeforeThrow(_)
ProcessedBeforeThrow(blocks) ==
    IF blocks = << >> THEN << >>
    ELSE LET txs == BeforeFirstThrow(Head(blocks).transactions)
         IN  IF txs # Head(blocks).transactions
             THEN <<[Head(blocks) EXCEPT !.transactions = txs]>>
             ELSE <<Head(blocks)>> \o ProcessedBeforeThrow(Tail(blocks))

(* C32: processPayload is not atomic.  When a transaction of call d throws, *)
(* the step undoes nothing (ledger, leaderboard and totalFees are as the    *)
(* rollback and the transactions in front left them), the call has appended *)
(* one record per recognized event of the transactions in front of the      *)
(* throwing one and appends nothing afterwards, totalTransactions does not  *)
(* move, and the route, its caller, gets the error and answers 500.  A call *)
(* with a throwing transaction never resolves, and a rejected call is left  *)
(* as it is by every later step.                                            *)
C32_FailedCallKeepsItsPartialWork ==
    [][\A d \in 1..MaxDeliveries :
          /\ Rejects(d) =>
                /\ store' = store
                /\ totalTransactions' = totalTransactions
                /\ InPayloadOrder(calls'[d].appended,
                                  ProcessedBeforeThrow(calls'[d].applyBlocks))
                /\ responses' = Append(responses, [call |-> d, status |-> 500])
          /\ Resolves(d) =>
                ProcessedBeforeThrow(calls'[d].applyBlocks) = calls'[d].applyBlocks
          /\ (d \in 1..Len(calls) /\ calls[d].status = "rejected") =>
                /\ calls'[d] = calls[d]
                /\ (last' # last => last'.call # d)]_vars

(* the first call appended the record of 0xaa at height 100 and was         *)
(* rejected at its second transaction; the second call rolled height 100    *)
(* back, appended the record of 0xcc and was rejected at its second         *)
(* transaction: the rollback and the record of 0xcc are in the ledger, the  *)
(* record of 0xdd is not, and no transaction has been counted               *)
C32_Witness ==
    /\ Len(calls) = 2
    /\ calls[1].status = "rejected"
    /\ calls[2].status = "rejected"
    /\ Len(calls[1].appended) = 1
    /\ calls[1].appended[1].id = "0xaa-pulse"
    /\ Len(activities) = 1
    /\ activities[1].id = "0xcc-pulse"
    /\ activities = calls[2].appended
    /\ totalTransactions = 0
    /\ responses = <<[call |-> 1, status |-> 500], [call |-> 2, status |-> 500]>>


(* C33: after every step every leaderboard entry has                        *)
(* longestStreak >= currentStreak >= 0, and no step removes an entry or     *)
(* lowers its longestStreak.                                                *)
C33_LongestStreakBoundsCurrent ==
    [][/\ \A u \in DOMAIN leaderboard' :
             /\ leaderboard'[u].longestStreak >= leaderboard'[u].currentStreak
             /\ leaderboard'[u].currentStreak >= 0
       /\ \A u \in DOMAIN leaderboard :
             /\ u \in DOMAIN leaderboard'
             /\ leaderboard'[u].longestStreak >= leaderboard[u].longestStreak]_vars

\* a pulse with streak 7 and then one with streak 3: the longest streak stays 7
C33_Witness ==
    /\ env = StreakEnv
    /\ last.op = "event"
    /\ last.ev.streak = 3
    /\ "SP1" \in DOMAIN leaderboard
    /\ leaderboard["SP1"].currentStreak = 3
    /\ leaderboard["SP1"].longestStreak = 7


(* C34: after a rollback has been applied, applying the same list again     *)
(* leaves the ledger as it is; the records a rollback leaves are those of   *)
(* the ledger before, in their order; a rollback that names no height of a  *)
(* record leaves the ledger as it was; and every rollback makes one emit,   *)
(* on the rollback channel.                                                 *)
C34_RollbackIsIdempotent ==
    [][RollbackStep =>
        /\ HandleRollback(Written(activities', leaderboard', totalFees'),
                          last'.rollback).activities = activities'
        /\ (last.op = "rollback" /\ last.rollback = last'.rollback) =>
               activities' = activities
        /\ activities' = SelectSeq(activities, LAMBDA a : a \in Range(activities'))
        /\ (\A i \in 1..Len(activities) :
                activities[i].blockHeight \notin Range(last'.rollback)) =>
               activities' = activities
        /\ Len(emitted') = 1
        /\ emitted'[1].channel = "rollback"]_vars

(* two events were handled, at heights 100 and 101, then height 100 was     *)
(* rolled back: the record at 101 is what is left, and rolling 100 back     *)
(* again would find nothing to remove                                       *)
C34_Witness ==
    /\ env = LedgerEnv
    /\ units = 2
    /\ last.op = "rollback"
    /\ last.rollback = <<100>>
    /\ Len(activities) = 1
    /\ activities[1].blockHeight = 101
    /\ Len(emitted) = 1
    /\ emitted[1].channel = "rollback"


\* a step of processTransaction handled the operation of a pulse-sent print
OperationStep ==
    /\ last'.op = "operation"
    /\ units' = units + 1
    /\ env.fields[1].value = <<112, 117, 108, 115, 101, 45, 115, 101, 110, 116>>

\* the user the decoder returns for the principal of the print
OperationUser == <<"0", "x">> \o ToHex(env.fields[2].value)

(* C35 as claimed: a pulse-sent print that arrives in the operations format *)
(* as a binary tuple leaves the user's totalPoints at the previous total    *)
(* plus the integer of its points field, and totalFees at the previous      *)
(* total plus the integer of its fee field, as the event does when it is    *)
(* delivered with numeric fields.                                           *)
C35_DecodedPulseAddsItsIntegers ==
    [][OperationStep =>
        /\ OperationUser \in DOMAIN leaderboard'
        /\ leaderboard'[OperationUser].totalPoints
             = JsPlus(IF OperationUser \in DOMAIN leaderboard
                      THEN leaderboard[OperationUser].totalPoints ELSE JsNumber(0),
                      JsNumber(env.fields[3].value[1]))
        /\ totalFees' = JsPlus(totalFees, JsNumber(env.fields[4].value[1]))]_vars


\* a webhook request arrived in this step
ArrivalStep == request'.n = request.n + 1

(* C36: the route handler calls processPayload only for a request whose     *)
(* Authorization header is 'Bearer <WEBHOOK_SECRET>' or whose token query   *)
(* parameter is WEBHOOK_SECRET; every other request is answered 401, starts *)
(* no call and leaves ledger, leaderboard, totalFees and totalTransactions  *)
(* as they were.                                                            *)
C36_OnlyAuthenticatedRequestsAreProcessed ==
    [][/\ ReceiveStep =>
            /\ ArrivalStep
            /\ \/ request'.authorization = <<"Bearer chainpulse-secret">>
               \/ request'.token = <<"chainpulse-secret">>
       /\ (/\ ArrivalStep
           /\ request'.authorization # <<"Bearer chainpulse-secret">>
           /\ request'.token # <<"chainpulse-secret">>) =>
            /\ responses' = Append(responses, [call |-> 0, status |-> 401])
            /\ broadcasts' = broadcasts
            /\ calls' = calls
            /\ store' = store]_vars

(* a first request with the secret as a token was processed and left a      *)
(* record; a second one with a wrong Bearer value and a wrong token was     *)
(* answered 401 and left everything as it was                               *)
C36_Witness ==
    /\ request = Request(2, <<"Bearer wrong">>, <<"wrong">>)
    /\ Len(calls) = 1
    /\ calls[1].status = "resolved"
    /\ Len(activities) = 1
    /\ totalTransactions = 1
    /\ responses = <<[call |-> 1, status |-> 200], [call |-> 0, status |-> 401]>>

-----------------------------------------------------------------------------
(* pulse-badge-nft: one badge per user and type, token ids without gaps *)

MintStep == contract'.call.fn = "mint-badge"

MintKey == <<contract'.call.args[2], contract'.call.args[1]>>

\* the token ids that exist: they own an NFT and have metadata
TokenIds(c) == DOMAIN c.pulseBadge

\* C37: a mint-badge call for a (recipient, badge type) pair that already
\* holds a badge returns ERR_ALREADY_MINTED and changes nothing of the
\* contract, and any other mint-badge call returns the next token id; so a
\* pair is minted at most once.  After every sequence of calls last-token-id
\* is the number of successful mints, and the successful mints made the token
\* ids 1, 2, .. last-token-id in this order, each once: the i-th one made
\* token i, which exists with the metadata of that mint.
MintedOncePerPair ==
    [][MintStep =>
         IF MintKey \in DOMAIN contract.data.userBadges
         THEN /\ ~contract'.response.ok
              /\ contract'.response.code = ERR_ALREADY_MINTED
              /\ contract'.data = contract.data
              /\ contract'.minted = contract.minted
         ELSE /\ contract'.response.ok
              /\ contract'.response.value = contract.data.lastTokenId + 1
              /\ MintKey \in DOMAIN contract'.data.userBadges]_vars

TokenIdsCountMints ==
    contract.name = "pulse-badge-nft" =>
        LET c == contract.data
            minted == contract.minted
        IN  /\ c.lastTokenId = Len(minted)
            /\ TokenIds(c) = 1..c.lastTokenId
            /\ DOMAIN c.badgeMetadata = 1..c.lastTokenId
            /\ \A i \in 1..Len(minted) :
                 /\ minted[i].tokenId = i
                 /\ c.badgeMetadata[i].badgeType = minted[i].badgeType
                 /\ c.badgeMetadata[i].mintedTo = minted[i].recipient
                 /\ c.userBadges[<<minted[i].recipient, minted[i].badgeType>>].tokenId = i
            /\ \A i, j \in 1..Len(minted) :
                 (/\ minted[i].recipient = minted[j].recipient
                  /\ minted[i].badgeType = minted[j].badgeType) => i = j
            /\ DOMAIN c.userBadges =
                 {<<minted[i].recipient, minted[i].badgeType>> : i \in 1..Len(minted)}

C37_MintOncePerPairAndCountTokens == MintedOncePerPair /\ []TokenIdsCountMints

\* a second mint for a pair was refused after the badge had been transferred
\* away, with every pair of the run minted
C37_Witness ==
    /\ contract.name = "pulse-badge-nft"
    /\ contract.call.fn = "mint-badge"
    /\ contract.response.code = ERR_ALREADY_MINTED
    /\ contract.data.lastTokenId = 4
    /\ \E t \in TokenIds(contract.data) :
         /\ contract.data.badgeMetadata[t].mintedTo = contract.call.args[2]
         /\ contract.data.badgeMetadata[t].badgeType = contract.call.args[1]
         /\ contract.data.pulseBadge[t] # contract.call.args[2]

-----------------------------------------------------------------------------
(* pulse-rewards: the stored tier over achieve-tier calls *)

\* none < bronze < silver < gold < platinum
TierRank(tier) ==
    CASE tier = "none"     -> 0
      [] tier = "bronze"   -> 1
      [] tier = "silver"   -> 2
      [] tier = "gold"     -> 3
      [] tier = "platinum" -> 4

StoredTier(c, user) == GetUserRewardsOrDefault(c, user).currentTier

AchieveStep == contract'.call.fn = "achieve-tier"

\* C38: an achieve-tier call never moves the caller's stored current-tier to
\* a lower tier (none < bronze < silver < gold < platinum): the tier it
\* leaves stored ranks at least as high as the tier stored before the call.
C38_AchieveTierNeverLowersTheTier ==
    [][AchieveStep =>
         \A user \in Users :
             TierRank(StoredTier(contract'.data, user))
                 >= TierRank(StoredTier(contract.data, user))]_vars

-----------------------------------------------------------------------------
(* pulse-core: the cooldown of send-pulse *)

PulseStep == contract'.call.fn = "send-pulse"

PulseCaller == contract'.call.args[1]

\* the burn block heights of the pulses the contract has logged for a user
PulseHeights(c, user) ==
    {c.activityLog[k].blockHeight :
        k \in {k \in DOMAIN c.activityLog :
                  k[1] = user /\ c.activityLog[k].actionType = "pulse"}}

InsideCooldown(c, user) ==
    LET lastPulse == GetUserStatsOrDefault(c, user).lastPulseBlock
    IN  lastPulse # 0 /\ c.height - lastPulse < PULSE_COOLDOWN

\* a send-pulse call inside the cooldown of its caller returns
\* ERR_COOLDOWN_ACTIVE and changes nothing
RefusedInsideCooldown ==
    [][(PulseStep /\ InsideCooldown(contract.data, PulseCaller)) =>
         /\ ~contract'.response.ok
         /\ contract'.response.code = ERR_COOLDOWN_ACTIVE
         /\ contract'.data.userStats = contract.data.userStats
         /\ contract'.data.totalPulses = contract.data.totalPulses
         /\ contract'.data.totalFeesCollected = contract.data.totalFeesCollected
         /\ contract'.data = contract.data]_vars

\* a successful send-pulse call is a pulse at the height of the call, counted
\* once for its caller and once in total-pulses
SuccessIsAPulse ==
    [][(PulseStep /\ contract'.response.ok) =>
         LET before == GetUserStatsOrDefault(contract.data, PulseCaller)
             after  == GetUserStatsOrDefault(contract'.data, PulseCaller)
         IN  /\ after.lastPulseBlock = contract.data.height
             /\ after.totalPulses = before.totalPulses + 1
             /\ contract'.data.totalPulses = contract.data.totalPulses + 1
             /\ PulseHeights(contract'.data, PulseCaller) =
                  PulseHeights(contract.data, PulseCaller) \cup {contract.data.height}
             /\ \A h \in PulseHeights(contract.data, PulseCaller) :
                  contract.data.height - h >= PULSE_COOLDOWN]_vars

PulsesApart ==
    contract.name = CoreContract =>
        \A user \in Users :
            /\ Cardinality(PulseHeights(contract.data, user))
                   = GetUserStatsOrDefault(contract.data, user).totalPulses
            /\ \A h1, h2 \in PulseHeights(contract.data, user) :
                   h1 < h2 => h2 - h1 >= PULSE_COOLDOWN

=============================================================================
